---------------------------- MODULE Spec2Model ----------------------------
(***************************************************************************)
(* A model of the eCourts scraping pipeline: the HTML extractor            *)
(* (ECourtsScraper.parseHtml), the query orchestrator (getCaseDetails,     *)
(* getAppTokenAndCaptcha), the two batch drivers (main, ECourtsScraper.run)*)
(* and the persistence layer (Database.insertCase and its get-or-create    *)
(* resolvers) over the schema of schema.sql.                               *)
(*                                                                         *)
(* Text is a sequence of one-character strings, so that trim, split, join  *)
(* and the regular expressions of the source are computed as the source    *)
(* computes them.  JavaScript's null is NullText (for text) or 0 (for an   *)
(* auto-increment id, which starts at 1).                                  *)
(***************************************************************************)
EXTENDS Naturals, Sequences, FiniteSets

\* ------------------------------------------------------------------ bounds

\* insertCase calls made in one behaviour of the store specification
MaxCalls == 2
\* statements that fail in one behaviour
MaxFailures == 1
\* rows of the status table of an extracted fragment
MaxStatusRows == 2
\* data rows of the acts table of an extracted fragment
MaxActRows == 2
\* identifiers in the input list of a batch driver
MaxCnr == 2
\* the length of a generated party name or date text
MaxTextLen == 3
\* the largest maxAttempts passed to getCaseDetails
MaxAttemptsBound == 2

\* ------------------------------------------------------ program constants

\* getAppTokenAndCaptcha(maxRetries = 3)
DefaultMaxRetries == 3
\* getCaseDetails(cnr, maxAttempts = 1)
DefaultMaxAttempts == 1

\* -------------------------------------------------------------------- text

NullText == <<"NULL">>

Digits == {"0", "1", "2", "3", "4", "5", "6", "7", "8", "9"}
Letters == {"A", "B", "C", "D", "E", "F", "G", "H", "I", "J", "K", "L", "M",
            "N", "O", "P", "Q", "R", "S", "T", "U", "V", "W", "X", "Y", "Z",
            "a", "b", "c", "d", "e", "f", "g", "h", "i", "j", "k", "l", "m",
            "n", "o", "p", "q", "r", "s", "t", "u", "v", "w", "x", "y", "z"}
\* the characters \s matches
Spaces == {" ", "\n", "\t"}
\* the characters \w matches
WordChars == Letters \cup Digits \cup {"_"}

\* JavaScript's !x for a text: null and "" are falsy
Falsy(t) == t = NullText \/ t = <<>>

RECURSIVE TrimLeft(_)
TrimLeft(s) ==
    IF s # <<>> /\ Head(s) \in Spaces THEN TrimLeft(Tail(s)) ELSE s

RECURSIVE TrimRight(_)
TrimRight(s) ==
    IF s # <<>> /\ s[Len(s)] \in Spaces
    THEN TrimRight(SubSeq(s, 1, Len(s) - 1)) ELSE s

\* String.prototype.trim
Trim(s) == TrimRight(TrimLeft(s))

\* String.prototype.indexOf: the first index at which sep occurs in s, or 0
IndexOf(s, sep) ==
    LET hits == {i \in 1..(Len(s) + 1 - Len(sep)) :
                    SubSeq(s, i, i + Len(sep) - 1) = sep}
    IN IF hits = {} THEN 0 ELSE CHOOSE i \in hits : \A j \in hits : i <= j

\* String.prototype.includes
Includes(s, sub) == IndexOf(s, sub) # 0

\* String.prototype.split with a non-empty string separator
RECURSIVE Split(_, _)
Split(s, sep) ==
    LET i == IndexOf(s, sep)
    IN IF i = 0 THEN <<s>>
       ELSE <<SubSeq(s, 1, i - 1)>> \o Split(SubSeq(s, i + Len(sep), Len(s)), sep)

\* Array.prototype.join
RECURSIVE Join(_, _)
Join(list, sep) ==
    IF list = <<>> THEN <<>>
    ELSE IF Len(list) = 1 THEN list[1]
    ELSE list[1] \o sep \o Join(Tail(list), sep)

\* Array.prototype.map(x => x.trim())
MapTrim(list) == [i \in 1..Len(list) |-> Trim(list[i])]

AllDigits(s) == s # <<>> /\ \A i \in 1..Len(s) : s[i] \in Digits

\* the length of the run of characters of set cs that starts at index i of s
RECURSIVE RunLen(_, _, _)
RunLen(s, i, cs) ==
    IF i <= Len(s) /\ s[i] \in cs THEN 1 + RunLen(s, i + 1, cs) ELSE 0


\* ------------------------------------------------------- Database.parseDate

DigitSeq == <<"0", "1", "2", "3", "4", "5", "6", "7", "8", "9">>

DigitVal(c) == (CHOOSE i \in 1..10 : DigitSeq[i] = c) - 1

\* the value of a text of digits
RECURSIVE NumVal(_)
NumVal(s) ==
    IF s = <<>> THEN 0
    ELSE 10 * NumVal(SubSeq(s, 1, Len(s) - 1)) + DigitVal(s[Len(s)])

\* n written with exactly w digits, zero-padded (moment's YYYY, MM, DD output)
RECURSIVE Pad(_, _)
Pad(n, w) ==
    IF w = 0 THEN <<>> ELSE Pad(n \div 10, w - 1) \o <<DigitSeq[(n % 10) + 1]>>

\* moment's English month names (MMMM) and their three-letter forms (MMM)
MonthNames == <<
    <<"J", "a", "n", "u", "a", "r", "y">>,
    <<"F", "e", "b", "r", "u", "a", "r", "y">>,
    <<"M", "a", "r", "c", "h">>,
    <<"A", "p", "r", "i", "l">>,
    <<"M", "a", "y">>,
    <<"J", "u", "n", "e">>,
    <<"J", "u", "l", "y">>,
    <<"A", "u", "g", "u", "s", "t">>,
    <<"S", "e", "p", "t", "e", "m", "b", "e", "r">>,
    <<"O", "c", "t", "o", "b", "e", "r">>,
    <<"N", "o", "v", "e", "m", "b", "e", "r">>,
    <<"D", "e", "c", "e", "m", "b", "e", "r">> >>

MonthShort == [m \in 1..12 |-> SubSeq(MonthNames[m], 1, 3)]

DaysInMonth(y, m) ==
    IF m = 2
    THEN (IF y % 4 = 0 /\ (y % 100 # 0 \/ y % 400 = 0) THEN 29 ELSE 28)
    ELSE IF m \in {4, 6, 9, 11} THEN 30 ELSE 31

\* the first replacement of /(\d+)(st|nd|rd|th)/ by '$1'
Ordinals == {<<"s", "t">>, <<"n", "d">>, <<"r", "d">>, <<"t", "h">>}

StripOrdinal(s) ==
    LET hits == {i \in 1..Len(s) :
                    /\ s[i] \in Digits
                    /\ i + 2 <= Len(s)
                    /\ SubSeq(s, i + 1, i + 2) \in Ordinals}
    IN IF hits = {} THEN s
       ELSE LET i == CHOOSE h \in hits : \A j \in hits : h <= j
            IN SubSeq(s, 1, i) \o SubSeq(s, i + 3, Len(s))

\* a parsed date, or the invalid date [ok |-> FALSE]
NoDate == [ok |-> FALSE, y |-> 0, m |-> 0, d |-> 0]

ValidDate(y, m, d) ==
    IF m \in 1..12 /\ d >= 1 /\ d <= DaysInMonth(y, m)
    THEN [ok |-> TRUE, y |-> y, m |-> m, d |-> d]
    ELSE NoDate

\* moment(s, 'DD<sep>MM<sep>YYYY', true): strict, two and four digit fields
ParseDMY(s, sep) ==
    IF /\ Len(s) = 10
       /\ AllDigits(SubSeq(s, 1, 2)) /\ s[3] = sep
       /\ AllDigits(SubSeq(s, 4, 5)) /\ s[6] = sep
       /\ AllDigits(SubSeq(s, 7, 10))
    THEN ValidDate(NumVal(SubSeq(s, 7, 10)), NumVal(SubSeq(s, 4, 5)),
                   NumVal(SubSeq(s, 1, 2)))
    ELSE NoDate

\* moment(s, 'YYYY-MM-DD', true)
ParseYMD(s) ==
    IF /\ Len(s) = 10
       /\ AllDigits(SubSeq(s, 1, 4)) /\ s[5] = "-"
       /\ AllDigits(SubSeq(s, 6, 7)) /\ s[8] = "-"
       /\ AllDigits(SubSeq(s, 9, 10))
    THEN ValidDate(NumVal(SubSeq(s, 1, 4)), NumVal(SubSeq(s, 6, 7)),
                   NumVal(SubSeq(s, 9, 10)))
    ELSE NoDate

\* moment(s, 'DD<sep><month name><sep>YYYY', true) with the month names of
\* table names (MMMM or MMM)
ParseDMonY(s, sep, names) ==
    LET ms == {m \in 1..12 :
                 /\ Len(s) = 2 + 1 + Len(names[m]) + 1 + 4
                 /\ AllDigits(SubSeq(s, 1, 2)) /\ s[3] = sep
                 /\ SubSeq(s, 4, 3 + Len(names[m])) = names[m]
                 /\ s[4 + Len(names[m])] = sep
                 /\ AllDigits(SubSeq(s, 5 + Len(names[m]), Len(s)))}
    IN IF ms = {} THEN NoDate
       ELSE LET m == CHOOSE x \in ms : TRUE
            IN ValidDate(NumVal(SubSeq(s, 5 + Len(names[m]), Len(s))), m,
                         NumVal(SubSeq(s, 1, 2)))

\* parsed.format('YYYY-MM-DD')
FormatISO(dt) == Pad(dt.y, 4) \o <<"-">> \o Pad(dt.m, 2) \o <<"-">> \o Pad(dt.d, 2)

parseDate(dateStr) ==
    IF Falsy(dateStr) THEN NullText
    ELSE LET s == Trim(StripOrdinal(dateStr))
             formats == << ParseDMY(s, "-"), ParseDMY(s, "/"), ParseYMD(s),
                           ParseDMonY(s, " ", MonthNames),
                           ParseDMonY(s, "-", MonthShort) >>
             valid == {i \in 1..5 : formats[i].ok}
         IN IF valid = {} THEN NullText
            ELSE FormatISO(formats[CHOOSE i \in valid : \A j \in valid : i <= j])

\* --------------------------------------------- Database.cleanLitigantName

\* name.replace(/^\d+[\s)]+/, '')
StripNumberPrefix(name) ==
    LET nd == RunLen(name, 1, Digits)
        ns == RunLen(name, nd + 1, Spaces \cup {")"})
    IN IF nd >= 1 /\ ns >= 1 THEN SubSeq(name, nd + ns + 1, Len(name)) ELSE name

\* name.replace(/[^\w\s]/g, ' ')
BlankSpecials(name) ==
    [i \in 1..Len(name) |->
        IF name[i] \in WordChars \cup Spaces THEN name[i] ELSE " "]

cleanLitigantName(name) ==
    IF Falsy(name) THEN NullText
    ELSE LET cleaned == Trim(BlankSpecials(StripNumberPrefix(name)))
         IN IF cleaned = <<>> THEN NullText ELSE cleaned


\* ------------------------------------------------------------- the store

(***************************************************************************)
(* A table is the sequence of its rows in primary-key order; a row's id is *)
(* its index (AUTO_INCREMENT from 1).  Only acts.name and                  *)
(* act_sections(act_id, section_id) carry a UNIQUE key in the schema.      *)
(* created_at/updated_at columns are left out.                             *)
(***************************************************************************)
EmptyStore ==
    [states |-> <<>>, districts |-> <<>>, courts |-> <<>>, court_halls |-> <<>>,
     case_types |-> <<>>, litigants |-> <<>>, advocates |-> <<>>,
     acts |-> <<>>, sections |-> <<>>, act_sections |-> <<>>,
     cases |-> <<>>, case_litigants |-> <<>>, case_acts |-> <<>>,
     case_history |-> <<>>, case_transfers |-> <<>>, case_ias |-> <<>>,
     failed_cases |-> <<>>]

StateName == <<"K", "e", "r", "a", "l", "a">>
DistrictName == <<"K", "a", "n", "n", "u", "r">>
CourtName == <<"M", "u", "n", "s", "i", "f", "f", "s", "s", " ", "C", "o", "u", "r", "t", " ", "K", "u", "t", "h", "u", "p", "a", "r", "a", "m", "b", "a">>
\* categories.id of 'Districts Courts'
DistrictCourtCategory == 3

(***************************************************************************)
(* insertCase and its resolvers are modelled statement by statement.  A    *)
(* step is one connection.execute of the source: its resolver, its         *)
(* statement (op) and the values bound to it (arg).  Executing a step on   *)
(* the store and the local variables of the call (the registers) gives the *)
(* store and registers afterwards, and whether the statement was issued at *)
(* all (issued) and whether it hit a UNIQUE key (dup).                     *)
(***************************************************************************)
NoRegisters ==
    [stateId |-> 0, districtId |-> 0, courtId |-> 0, courtHallId |-> 0,
     caseTypeId |-> 0, caseId |-> 0, litigantId |-> 0, advocateId |-> 0,
     actId |-> 0, sectionId |-> 0, existing |-> 0, skip |-> FALSE]

\* the statement ran
Done(store, reg) == [db |-> store, reg |-> reg, issued |-> TRUE, dup |-> FALSE]
\* the code path does not reach the statement
NotIssued(store, reg) == [db |-> store, reg |-> reg, issued |-> FALSE, dup |-> FALSE]
\* the statement raised ER_DUP_ENTRY
Duplicate(store, reg) == [db |-> store, reg |-> reg, issued |-> TRUE, dup |-> TRUE]

MinOf(S) == CHOOSE i \in S : \A j \in S : i <= j

\* the ids of the rows of table t that satisfy Match
RowsWhere(store, t, Match(_)) == {i \in 1..Len(store[t]) : Match(store[t][i])}

\* const [rows] = SELECT id FROM t WHERE ...; rows.length ? rows[0].id : null
\* (the rows come in primary-key order)
SelectId(store, t, Match(_)) ==
    LET rows == RowsWhere(store, t, Match)
    IN IF rows = {} THEN 0 ELSE MinOf(rows)

\* INSERT INTO t: the connection runs with autocommit (beginTransaction is
\* never called), so the row is durable as soon as the statement returns
InsertRow(store, t, row) == [store EXCEPT ![t] = Append(@, row)]

\* INSERT IGNORE INTO t, a table without a UNIQUE key: nothing to ignore,
\* the row is always inserted
InsertIgnore(store, t, row) == InsertRow(store, t, row)

\* ------------------------------------------------- get-or-create resolvers

StateDistrictSteps ==
    << [resolver |-> "getOrCreateStateDistrict", op |-> "states.insert", arg |-> StateName],
       [resolver |-> "getOrCreateStateDistrict", op |-> "states.select", arg |-> StateName],
       [resolver |-> "getOrCreateStateDistrict", op |-> "districts.insert", arg |-> DistrictName],
       [resolver |-> "getOrCreateStateDistrict", op |-> "districts.select", arg |-> DistrictName] >>

getOrCreateStateDistrict(store, reg, st) ==
    CASE st.op = "states.insert" ->
            Done(InsertIgnore(store, "states", [name |-> st.arg]), reg)
      [] st.op = "states.select" ->
            Done(store, [reg EXCEPT !.stateId =
                    SelectId(store, "states", LAMBDA r : r.name = st.arg)])
      [] st.op = "districts.insert" ->
            Done(InsertIgnore(store, "districts",
                    [name |-> st.arg, state_id |-> reg.stateId]), reg)
      [] st.op = "districts.select" ->
            Done(store, [reg EXCEPT !.districtId =
                    SelectId(store, "districts", LAMBDA r : r.name = st.arg)])

CourtSteps(courtName) ==
    IF Falsy(courtName) THEN <<>>
    ELSE << [resolver |-> "getOrCreateCourt", op |-> "courts.insert", arg |-> courtName],
            [resolver |-> "getOrCreateCourt", op |-> "courts.select", arg |-> courtName] >>

getOrCreateCourt(store, reg, st) ==
    CASE st.op = "courts.insert" ->
            Done(InsertIgnore(store, "courts",
                    [name |-> st.arg, state_id |-> reg.stateId,
                     district_id |-> reg.districtId,
                     category_id |-> DistrictCourtCategory]), reg)
      [] st.op = "courts.select" ->
            Done(store, [reg EXCEPT !.courtId =
                    SelectId(store, "courts",
                        LAMBDA r : /\ r.name = st.arg
                                   /\ r.state_id = reg.stateId
                                   /\ r.district_id = reg.districtId)])

\* courtNumberAndJudge.match(/(\d+)\s*-\s*(.+)/): the leftmost run of digits
\* that is followed by optional spaces, a hyphen and at least one character
\* the text before the first hyphen taken as the hall number
CourtHallSplit(text) ==
    LET at == {i \in 1..Len(text) : text[i] = "-"}
    IN IF at = {} \/ MinOf(at) = Len(text) \/ MinOf(at) = 1
       THEN [ok |-> FALSE, number |-> <<>>, judge |-> <<>>]
       ELSE [ok |-> TRUE, number |-> Trim(SubSeq(text, 1, MinOf(at) - 1)),
             judge |-> Trim(SubSeq(text, MinOf(at) + 1, Len(text)))]

\* courtNumberAndJudge.match(/(\d+)\s*-\s*(.+)/)
CourtHallMatch(text) ==
    LET starts == {i \in 1..Len(text) :
                     /\ text[i] \in Digits
                     /\ (i = 1 \/ text[i - 1] \notin Digits)
                     /\ LET e == i + RunLen(text, i, Digits)
                            h == e + RunLen(text, e, Spaces)
                        IN h < Len(text) /\ text[h] = "-"}
    IN IF starts = {} THEN [ok |-> FALSE, number |-> <<>>, judge |-> <<>>]
       ELSE LET i == MinOf(starts)
                e == i + RunLen(text, i, Digits)
                h == e + RunLen(text, e, Spaces)
            IN [ok |-> TRUE, number |-> SubSeq(text, i, e - 1),
                judge |-> Trim(SubSeq(text, h + 1, Len(text)))]

\* no statement when the text is empty or does not match
CourtHallSteps(courtNumberAndJudge) ==
    IF Falsy(courtNumberAndJudge) THEN <<>>
    ELSE LET m == CourtHallMatch(courtNumberAndJudge)
         IN IF ~m.ok THEN <<>>
            ELSE << [resolver |-> "getOrCreateCourtHall",
                     op |-> "court_halls.insert", arg |-> m.number],
                    [resolver |-> "getOrCreateCourtHall",
                     op |-> "court_halls.select", arg |-> m.number] >>

\* the judge name of the match is returned and never stored
getOrCreateCourtHall(store, reg, st) ==
    CASE st.op = "court_halls.insert" ->
            Done(InsertIgnore(store, "court_halls",
                    [name |-> st.arg, court_id |-> reg.courtId]), reg)
      [] st.op = "court_halls.select" ->
            Done(store, [reg EXCEPT !.courtHallId =
                    SelectId(store, "court_halls",
                        LAMBDA r : r.name = st.arg /\ r.court_id = reg.courtId)])

CaseTypeSteps(caseType) ==
    IF Falsy(caseType) THEN <<>>
    ELSE LET parts == Split(caseType, <<" ", "-", " ">>)
             a == [shortForm |-> Trim(parts[1]),
                   expandedForm |-> IF Len(parts) > 1 THEN Trim(parts[2])
                                    ELSE NullText]
         IN << [resolver |-> "getOrCreateCaseType", op |-> "case_types.insert", arg |-> a],
               [resolver |-> "getOrCreateCaseType", op |-> "case_types.select", arg |-> a] >>

getOrCreateCaseType(store, reg, st) ==
    CASE st.op = "case_types.insert" ->
            Done(InsertIgnore(store, "case_types",
                    [short_form |-> st.arg.shortForm,
                     expanded_form |-> st.arg.expandedForm]), reg)
      [] st.op = "case_types.select" ->
            Done(store, [reg EXCEPT !.caseTypeId =
                    SelectId(store, "case_types",
                        LAMBDA r : r.short_form = st.arg.shortForm)])

\* no statement when the name, or its cleaned form, is empty
LitigantSteps(name) ==
    IF Falsy(name) \/ cleanLitigantName(name) = NullText THEN <<>>
    ELSE << [resolver |-> "getOrCreateLitigant", op |-> "litigants.select",
             arg |-> cleanLitigantName(name)],
            [resolver |-> "getOrCreateLitigant", op |-> "litigants.insert",
             arg |-> cleanLitigantName(name)] >>

\* SELECT, then INSERT when the SELECT found no row
getOrCreateLitigant(store, reg, st) ==
    CASE st.op = "litigants.select" ->
            Done(store, [reg EXCEPT !.skip = FALSE, !.litigantId =
                    SelectId(store, "litigants",
                        LAMBDA r : r.litigant_name = st.arg)])
      [] st.op = "litigants.insert" ->
            IF reg.skip \/ reg.litigantId # 0 THEN NotIssued(store, reg)
            ELSE Done(InsertRow(store, "litigants", [litigant_name |-> st.arg]),
                      [reg EXCEPT !.litigantId = Len(store.litigants) + 1])

AdvocateSteps(name) ==
    IF Falsy(name) THEN <<>>
    ELSE << [resolver |-> "getOrCreateAdvocate", op |-> "advocates.insert", arg |-> name],
            [resolver |-> "getOrCreateAdvocate", op |-> "advocates.select", arg |-> name] >>

getOrCreateAdvocate(store, reg, st) ==
    CASE st.op = "advocates.insert" ->
            Done(InsertIgnore(store, "advocates", [advocate_name |-> st.arg]), reg)
      [] st.op = "advocates.select" ->
            Done(store, [reg EXCEPT !.advocateId =
                    SelectId(store, "advocates",
                        LAMBDA r : r.advocate_name = st.arg)])

\* actName.trim().replace(/\\$/, '').trim(), then the 'Name, YYYY' rule
NormalizeActName(actName) ==
    LET t == Trim(actName)
        u == Trim(IF t # <<>> /\ t[Len(t)] = "\\"
                  THEN SubSeq(t, 1, Len(t) - 1) ELSE t)
        parts == MapTrim(Split(u, <<",">>))
    IN IF Len(parts) > 1 /\ AllDigits(parts[2])
       THEN parts[1] \o <<",", " ">> \o parts[2]
       ELSE parts[1]

ActSteps(actName) ==
    IF Falsy(actName) THEN <<>>
    ELSE << [resolver |-> "getOrCreateAct", op |-> "acts.upsert",
             arg |-> NormalizeActName(actName)],
            [resolver |-> "getOrCreateAct", op |-> "acts.select",
             arg |-> NormalizeActName(actName)] >>

\* the INSERT without the unique key on the name
getOrCreateActNoKey(store, reg, st) ==
    CASE st.op = "acts.upsert" ->
            Done(InsertRow(store, "acts", [name |-> st.arg]), reg)
      [] st.op = "acts.select" ->
            Done(store, [reg EXCEPT !.actId =
                    SelectId(store, "acts", LAMBDA r : r.name = st.arg)])

\* INSERT INTO acts ... ON DUPLICATE KEY UPDATE ... (unique_act_name), then
\* the SELECT
getOrCreateAct(store, reg, st) ==
    CASE st.op = "acts.upsert" ->
            IF RowsWhere(store, "acts", LAMBDA r : r.name = st.arg) # {}
            THEN Done(store, reg)
            ELSE Done(InsertRow(store, "acts", [name |-> st.arg]), reg)
      [] st.op = "acts.select" ->
            Done(store, [reg EXCEPT !.actId =
                    SelectId(store, "acts", LAMBDA r : r.name = st.arg)])

SectionSteps(sectionNumber) ==
    IF Falsy(sectionNumber) THEN <<>>
    ELSE << [resolver |-> "getOrCreateSection", op |-> "sections.insert",
             arg |-> Trim(sectionNumber)],
            [resolver |-> "getOrCreateSection", op |-> "sections.select",
             arg |-> Trim(sectionNumber)] >>

\* called only inside if (actId)
getOrCreateSection(store, reg, st) ==
    CASE st.op = "sections.insert" ->
            IF reg.actId = 0
            THEN NotIssued(store, [reg EXCEPT !.sectionId = 0, !.skip = TRUE])
            ELSE Done(InsertIgnore(store, "sections", [section_number |-> st.arg]),
                      [reg EXCEPT !.skip = FALSE])
      [] st.op = "sections.select" ->
            IF reg.skip THEN NotIssued(store, reg)
            ELSE Done(store, [reg EXCEPT !.sectionId =
                        SelectId(store, "sections",
                            LAMBDA r : r.section_number = st.arg)])

\* the resolvers whose try/catch swallows the error and returns null
CatchingResolvers == {"getOrCreateLitigant", "getOrCreateSection"}

\* catch (error) { logger.error(...); return null; }: the resolver's id is
\* null and its remaining statements are not reached
CatchReturnNull(reg, st) ==
    IF st.resolver = "getOrCreateLitigant"
    THEN [reg EXCEPT !.litigantId = 0, !.skip = TRUE]
    ELSE [reg EXCEPT !.sectionId = 0, !.skip = TRUE]

\* ---------------------------------------------------- Database.insertCase

\* the defaults of ia.classification and ia.status
General == <<"G", "e", "n", "e", "r", "a", "l">>
Online == <<"O", "n", "l", "i", "n", "e">>

\* petitioner or respondent
PartySteps(name, advocate, partyType) ==
    IF Falsy(name) THEN <<>>
    ELSE LitigantSteps(name) \o AdvocateSteps(advocate)
         \o << [resolver |-> "insertCase", op |-> "case_litigants.insert",
                arg |-> [partyType |-> partyType,
                         hasLitigant |-> LitigantSteps(name) # <<>>,
                         hasAdvocate |-> AdvocateSteps(advocate) # <<>>]] >>

\* sections[i] of the split list: undefined past its end
SectionAt(sections, i) == IF i <= Len(sections) THEN sections[i] ELSE NullText

\* the body of the acts loop for acts[i]
ActPairSteps(act, section) ==
    IF Falsy(act) THEN <<>>
    ELSE ActSteps(act)
         \o (IF Falsy(section) THEN <<>>
             ELSE SectionSteps(section)
                  \o << [resolver |-> "insertCase", op |-> "act_sections.select", arg |-> 0],
                        [resolver |-> "insertCase", op |-> "act_sections.insert", arg |-> 0] >>)
         \o << [resolver |-> "insertCase", op |-> "case_acts.insert", arg |-> 0] >>

RECURSIVE ActsLoop(_, _, _)
ActsLoop(acts, sections, i) ==
    IF i > Len(acts) THEN <<>>
    ELSE ActPairSteps(acts[i], SectionAt(sections, i)) \o ActsLoop(acts, sections, i + 1)

\* underActs and underSections are split at every comma
ActsSteps(cd) ==
    IF Falsy(cd.underActs) THEN <<>>
    ELSE ActsLoop(MapTrim(Split(cd.underActs, <<",">>)),
                  IF Falsy(cd.underSections) THEN <<>>
                  ELSE MapTrim(Split(cd.underSections, <<",">>)),
                  1)

\* the list written from its last entry to its first
ListStepsReversed(op, list) ==
    [i \in 1..Len(list) |->
        [resolver |-> "insertCase", op |-> op, arg |-> list[Len(list) + 1 - i]]]

\* for (const entry of list) { INSERT ... }
ListSteps(op, list) ==
    [i \in 1..Len(list) |-> [resolver |-> "insertCase", op |-> op, arg |-> list[i]]]

RECURSIVE IASteps(_, _)
IASteps(ias, i) ==
    IF i > Len(ias) THEN <<>>
    ELSE LitigantSteps(ias[i].party)
         \o << [resolver |-> "insertCase", op |-> "case_ias.insert",
                arg |-> [ia |-> ias[i],
                         hasLitigant |-> LitigantSteps(ias[i].party) # <<>>]] >>
         \o IASteps(ias, i + 1)

\* a try block that writes the parties before the cases row
InsertCaseStepsPartiesFirst(cd) ==
    StateDistrictSteps
    \o CourtSteps(CourtName)
    \o CourtHallSteps(cd.courtNumberAndJudge)
    \o CaseTypeSteps(cd.caseType)
    \o PartySteps(cd.petitionerName, cd.petitionerAdvocate, "Petitioner")
    \o PartySteps(cd.respondentName, cd.respondentAdvocate, "Respondent")
    \o << [resolver |-> "insertCase", op |-> "cases.insert", arg |-> cd] >>
    \o ActsSteps(cd)
    \o ListSteps("case_history.insert", cd.caseHistory)
    \o ListSteps("case_transfers.insert", cd.transferDetails)
    \o IASteps(cd.iaDetails, 1)

\* the statements of insertCase's try block for record cd, in source order
InsertCaseSteps(cd) ==
    StateDistrictSteps
    \o CourtSteps(CourtName)
    \o CourtHallSteps(cd.courtNumberAndJudge)
    \o CaseTypeSteps(cd.caseType)
    \o << [resolver |-> "insertCase", op |-> "cases.insert", arg |-> cd] >>
    \o PartySteps(cd.petitionerName, cd.petitionerAdvocate, "Petitioner")
    \o PartySteps(cd.respondentName, cd.respondentAdvocate, "Respondent")
    \o ActsSteps(cd)
    \o ListSteps("case_history.insert", cd.caseHistory)
    \o ListSteps("case_transfers.insert", cd.transferDetails)
    \o IASteps(cd.iaDetails, 1)

CasesRow(cd, reg) ==
    [cnr_number |-> cd.cnrNumber, case_type_id |-> reg.caseTypeId,
     filing_number |-> cd.filingNumber,
     filing_date |-> parseDate(cd.filingDate),
     registration_number |-> cd.registrationNumber,
     registration_date |-> parseDate(cd.registrationDate),
     case_status |-> cd.caseStatus,
     first_hearing_date |-> parseDate(cd.firstHearingDate),
     decision_date |-> parseDate(cd.decisionDate),
     disposal_date |-> parseDate(cd.disposalDate),
     disposal_nature |-> cd.disposalNature,
     court_hall_id |-> reg.courtHallId]

CaseIARow(ia, reg, hasLitigant) ==
    [case_id |-> reg.caseId, ia_no |-> ia.iaNo,
     classification |-> IF Falsy(ia.classification) THEN General
                        ELSE ia.classification,
     ia_status |-> ia.iaStatus,
     dt_filing |-> parseDate(ia.dtFiling), dt_reg |-> parseDate(ia.dtReg),
     ia_party_id |-> IF hasLitigant THEN reg.litigantId ELSE 0,
     party |-> IF Falsy(ia.party) THEN NullText ELSE ia.party,
     status |-> IF Falsy(ia.status) THEN Online ELSE ia.status]

\* the statements insertCase issues itself
insertCaseStatement(store, reg, st) ==
    CASE st.op = "cases.insert" ->
            Done(InsertRow(store, "cases", CasesRow(st.arg, reg)),
                 [reg EXCEPT !.caseId = Len(store.cases) + 1])
      [] st.op = "case_litigants.insert" ->
            Done(InsertRow(store, "case_litigants",
                    [case_id |-> reg.caseId,
                     litigant_id |-> IF st.arg.hasLitigant THEN reg.litigantId ELSE 0,
                     advocate_id |-> IF st.arg.hasAdvocate THEN reg.advocateId ELSE 0,
                     party_type |-> st.arg.partyType]), reg)
      [] st.op = "act_sections.select" ->
            IF reg.actId = 0 \/ reg.sectionId = 0 THEN NotIssued(store, reg)
            ELSE Done(store, [reg EXCEPT !.existing =
                        SelectId(store, "act_sections",
                            LAMBDA r : /\ r.act_id = reg.actId
                                       /\ r.section_id = reg.sectionId)])
      [] st.op = "act_sections.insert" ->
            IF reg.actId = 0 \/ reg.sectionId = 0 \/ reg.existing # 0
            THEN NotIssued(store, reg)
            ELSE IF RowsWhere(store, "act_sections",
                        LAMBDA r : /\ r.act_id = reg.actId
                                   /\ r.section_id = reg.sectionId) # {}
            THEN Duplicate(store, reg)
            ELSE Done(InsertRow(store, "act_sections",
                        [act_id |-> reg.actId, section_id |-> reg.sectionId]), reg)
      [] st.op = "case_acts.insert" ->
            IF reg.actId = 0 THEN NotIssued(store, reg)
            ELSE Done(InsertIgnore(store, "case_acts",
                        [case_id |-> reg.caseId, act_id |-> reg.actId]), reg)
      [] st.op = "case_history.insert" ->
            Done(InsertRow(store, "case_history",
                    [case_id |-> reg.caseId, judge |-> st.arg.judge,
                     business_date |-> parseDate(st.arg.businessDate),
                     hearing_date |-> parseDate(st.arg.hearingDate),
                     purpose |-> st.arg.purpose]), reg)
      [] st.op = "case_transfers.insert" ->
            Done(InsertRow(store, "case_transfers",
                    [case_id |-> reg.caseId,
                     registration_number |-> st.arg.registrationNumber,
                     transfer_date |-> parseDate(st.arg.transferDate),
                     from_court |-> st.arg.fromCourt,
                     to_court |-> st.arg.toCourt]), reg)
      [] st.op = "case_ias.insert" ->
            Done(InsertRow(store, "case_ias",
                    CaseIARow(st.arg.ia, reg, st.arg.hasLitigant)), reg)

\* one statement of the try block on the store
Execute(store, reg, st) ==
    CASE st.resolver = "getOrCreateStateDistrict" -> getOrCreateStateDistrict(store, reg, st)
      [] st.resolver = "getOrCreateCourt" -> getOrCreateCourt(store, reg, st)
      [] st.resolver = "getOrCreateCourtHall" -> getOrCreateCourtHall(store, reg, st)
      [] st.resolver = "getOrCreateCaseType" -> getOrCreateCaseType(store, reg, st)
      [] st.resolver = "getOrCreateLitigant" -> getOrCreateLitigant(store, reg, st)
      [] st.resolver = "getOrCreateAdvocate" -> getOrCreateAdvocate(store, reg, st)
      [] st.resolver = "getOrCreateAct" -> getOrCreateAct(store, reg, st)
      [] st.resolver = "getOrCreateSection" -> getOrCreateSection(store, reg, st)
      [] st.resolver = "insertCase" -> insertCaseStatement(store, reg, st)

\* connection.rollback() in the catch block: no transaction is open, every
\* statement was committed as it ran, so nothing is undone
Rollback(store) == store

\* ------------------------------------------------ ECourtsScraper.parseHtml

UpperSeq == <<"A", "B", "C", "D", "E", "F", "G", "H", "I", "J", "K", "L", "M",
              "N", "O", "P", "Q", "R", "S", "T", "U", "V", "W", "X", "Y", "Z">>
LowerSeq == <<"a", "b", "c", "d", "e", "f", "g", "h", "i", "j", "k", "l", "m",
              "n", "o", "p", "q", "r", "s", "t", "u", "v", "w", "x", "y", "z">>

\* String.prototype.toLowerCase
ToLower(s) ==
    [i \in 1..Len(s) |->
        IF \E k \in 1..26 : UpperSeq[k] = s[i]
        THEN LowerSeq[CHOOSE k \in 1..26 : UpperSeq[k] = s[i]]
        ELSE s[i]]

LblCaseType == <<"c", "a", "s", "e", " ", "t", "y", "p", "e">>
LblFilingNumber == <<"f", "i", "l", "i", "n", "g", " ", "n", "u", "m", "b", "e", "r">>
LblRegistrationNumber == <<"r", "e", "g", "i", "s", "t", "r", "a", "t", "i", "o", "n", " ", "n", "u", "m", "b", "e", "r">>
LblCnrNumber == <<"c", "n", "r", " ", "n", "u", "m", "b", "e", "r">>
LblFirstHearingDate == <<"f", "i", "r", "s", "t", " ", "h", "e", "a", "r", "i", "n", "g", " ", "d", "a", "t", "e">>
LblDecisionDate == <<"d", "e", "c", "i", "s", "i", "o", "n", " ", "d", "a", "t", "e">>
LblCaseStatus == <<"c", "a", "s", "e", " ", "s", "t", "a", "t", "u", "s">>
LblNatureOfDisposal == <<"n", "a", "t", "u", "r", "e", " ", "o", "f", " ", "d", "i", "s", "p", "o", "s", "a", "l">>
LblCourtNumberAndJudge == <<"c", "o", "u", "r", "t", " ", "n", "u", "m", "b", "e", "r", " ", "a", "n", "d", " ", "j", "u", "d", "g", "e">>
\* the status for which the decision date is copied to the disposal date
CaseDisposed == <<"C", "a", "s", "e", " ", "d", "i", "s", "p", "o", "s", "e", "d">>
AdvocateDelimiter == <<"A", "d", "v", "o", "c", "a", "t", "e", "-">>

(***************************************************************************)
(* A fragment is what cheerio's selectors see of the HTML: whether a span  *)
(* holds the "does not exist" marker, whether the text 'Case Details'      *)
(* occurs, and the rows of each table as sequences of td texts (the acts,  *)
(* history, transfer and IA rows are those after .slice(1); a petitioner   *)
(* or respondent row is the text of its first td).                         *)
(***************************************************************************)
EmptyRecord ==
    [cnrNumber |-> NullText, caseType |-> NullText, filingNumber |-> NullText,
     filingDate |-> NullText, registrationNumber |-> NullText,
     registrationDate |-> NullText, caseStatus |-> NullText,
     disposalNature |-> NullText, disposalDate |-> NullText,
     decisionDate |-> NullText, courtNumberAndJudge |-> NullText,
     petitionerName |-> NullText, petitionerAdvocate |-> NullText,
     respondentName |-> NullText, respondentAdvocate |-> NullText,
     underActs |-> NullText, underSections |-> NullText,
     firstHearingDate |-> NullText, caseHistory |-> <<>>,
     transferDetails |-> <<>>, iaDetails |-> <<>>]

\* cnrText.substring(0, 16)
CnrWidth == 16
\* the text kept whole
WholeText(s, n) == s
Substring0(s, n) == SubSeq(s, 1, IF Len(s) < n THEN Len(s) ELSE n)

\* one row of .case_details_table
DetailsRow(cd, cols) ==
    IF Len(cols) < 2 THEN cd
    ELSE LET label == ToLower(Trim(cols[1]))
             value == Trim(cols[2])
         IN IF Includes(label, LblCaseType) THEN [cd EXCEPT !.caseType = value]
            ELSE IF Includes(label, LblFilingNumber)
            THEN [cd EXCEPT !.filingNumber = value,
                            !.filingDate = IF Len(cols) >= 4 THEN Trim(cols[4]) ELSE @]
            ELSE IF Includes(label, LblRegistrationNumber)
            THEN [cd EXCEPT !.registrationNumber = value,
                            !.registrationDate = IF Len(cols) >= 4 THEN Trim(cols[4]) ELSE @]
            ELSE IF Includes(label, LblCnrNumber)
            THEN [cd EXCEPT !.cnrNumber = Substring0(value, CnrWidth)]
            ELSE cd

\* one row of .case_status_table: the disposal date is set while the
\* decision-date row is read, from the case status read so far
StatusRow(cd, cols) ==
    IF Len(cols) < 2 THEN cd
    ELSE LET label == ToLower(Trim(cols[1]))
             value == Trim(cols[2])
         IN IF Includes(label, LblFirstHearingDate)
            THEN [cd EXCEPT !.firstHearingDate = value]
            ELSE IF Includes(label, LblDecisionDate)
            THEN [cd EXCEPT !.decisionDate = value,
                            !.disposalDate = IF cd.caseStatus = CaseDisposed
                                             THEN value ELSE @]
            ELSE IF Includes(label, LblCaseStatus)
            THEN [cd EXCEPT !.caseStatus = value]
            ELSE IF Includes(label, LblNatureOfDisposal)
            THEN [cd EXCEPT !.disposalNature = value]
            ELSE IF Includes(label, LblCourtNumberAndJudge)
            THEN [cd EXCEPT !.courtNumberAndJudge = value]
            ELSE cd

\* one row of .Petitioner_Advocate_table
PetitionerRow(cd, cell) ==
    LET text == Trim(cell)
        parts == Split(text, AdvocateDelimiter)
    IN IF Len(parts) >= 2
       THEN [cd EXCEPT !.petitionerName = Trim(parts[1]),
                       !.petitionerAdvocate = Trim(parts[2])]
       ELSE [cd EXCEPT !.petitionerName = text]

\* one row of .Respondent_Advocate_table
RespondentRow(cd, cell) ==
    LET text == Trim(cell)
        parts == Split(text, AdvocateDelimiter)
    IN IF Len(parts) >= 2
       THEN [cd EXCEPT !.respondentName = Trim(parts[1]),
                       !.respondentAdvocate = Trim(parts[2])]
       ELSE [cd EXCEPT !.respondentName = text]

\* $(table).each(row => ...): Row applied to the rows in document order
EachRow(cd, rows, Row(_, _)) ==
    LET after[i \in 0..Len(rows)] ==
            IF i = 0 THEN cd ELSE Row(after[i - 1], rows[i])
    IN after[Len(rows)]

\* the acts (col = 1) or sections (col = 2) pushed while the rows of
\* .acts_table are read: a blank cell pushes nothing
RECURSIVE ActsColumn(_, _)
ActsColumn(rows, col) ==
    IF rows = <<>> THEN <<>>
    ELSE LET cols == Head(rows)
             text == IF Len(cols) >= 2 THEN Trim(cols[col]) ELSE <<>>
         IN (IF text = <<>> THEN <<>> ELSE <<text>>) \o ActsColumn(Tail(rows), col)

CommaSpace == <<",", " ">>

ActsRows(cd, rows) ==
    LET acts == ActsColumn(rows, 1)
        sections == ActsColumn(rows, 2)
    IN [cd EXCEPT !.underActs = IF acts # <<>> THEN Join(acts, CommaSpace) ELSE @,
                  !.underSections = IF sections # <<>>
                                    THEN Join(sections, CommaSpace) ELSE @]

Newline == <<"\n">>

\* one row of .history_table
HistoryRow(cd, cols) ==
    IF Len(cols) < 4 THEN cd
    ELSE LET entry == [judge |-> Trim(cols[1]),
                       businessDate |-> Split(Trim(cols[2]), Newline)[1],
                       hearingDate |-> Trim(cols[3]),
                       purpose |-> Trim(cols[4])]
         IN IF /\ entry.judge = <<>> /\ entry.businessDate = <<>>
               /\ entry.hearingDate = <<>> /\ entry.purpose = <<>>
            THEN cd
            ELSE [cd EXCEPT !.caseHistory = Append(@, entry)]

\* one row of .transfer_table
TransferRow(cd, cols) ==
    IF Len(cols) < 4 THEN cd
    ELSE [cd EXCEPT !.transferDetails = Append(@,
            [registrationNumber |-> Trim(cols[1]), transferDate |-> Trim(cols[2]),
             fromCourt |-> Trim(cols[3]), toCourt |-> Trim(cols[4])])]

\* text.replace(/[()]/g, '')
RECURSIVE DropParens(_)
DropParens(s) ==
    IF s = <<>> THEN <<>>
    ELSE (IF Head(s) \in {"(", ")"} THEN <<>> ELSE <<Head(s)>>) \o DropParens(Tail(s))

\* one row of .IAheading
IARow(cd, cols) ==
    IF Len(cols) < 5 THEN cd
    ELSE LET nextDatePurpose == Split(Trim(cols[4]), Newline)
             purpose == IF Len(nextDatePurpose) >= 2
                        THEN Trim(DropParens(nextDatePurpose[2])) ELSE NullText
             partyText == Trim(cols[2])
             firstLine == Split(partyText, Newline)[1]
         IN [cd EXCEPT !.iaDetails = Append(@,
               [iaNo |-> Trim(cols[1]),
                party |-> IF firstLine = <<>> THEN partyText ELSE firstLine,
                dtFiling |-> Trim(cols[3]),
                iaStatus |-> Trim(cols[5]),
                classification |-> IF Falsy(purpose) THEN General ELSE purpose,
                dtReg |-> Trim(cols[3]),
                status |-> Online])]

\* parseHtml's result when it returns null
NoRecord == [isNull |-> TRUE]

\* a record returned whatever the text holds
ParseUnvalidated(html) == [isNull |-> FALSE, rec |-> EmptyRecord]

\* the record is built inside try { ... } catch (error) { return null; }:
\* an argument that is no text (NoFragment) makes html.includes raise, and
\* the catch block turns that into null
parseHtml(html) ==
    IF html.isNone THEN NoRecord
    ELSE IF html.markerSpan \/ ~html.hasCaseDetails THEN NoRecord
    ELSE LET c1 == EachRow(EmptyRecord, html.detailsRows, DetailsRow)
             c2 == EachRow(c1, html.statusRows, StatusRow)
             c3 == EachRow(c2, html.petitionerRows, PetitionerRow)
             c4 == EachRow(c3, html.respondentRows, RespondentRow)
             c5 == ActsRows(c4, html.actsRows)
             c6 == EachRow(c5, html.historyRows, HistoryRow)
             c7 == EachRow(c6, html.transferRows, TransferRow)
             c8 == EachRow(c7, html.iaRows, IARow)
         IN IF Falsy(c8.cnrNumber) THEN NoRecord
            ELSE [isNull |-> FALSE, rec |-> c8]


\* ---------------------------------------------------------- sample texts

Cnr1 == <<"K", "L", "K", "N", "0", "1", "0", "0", "0", "0", "0", "1", "2", "0", "1", "9">>
Cnr2 == <<"K", "L", "K", "N", "0", "1", "0", "0", "0", "0", "0", "2", "2", "0", "1", "9">>
TdCaseType == <<"C", "a", "s", "e", " ", "T", "y", "p", "e">>
TdFilingNumber == <<"F", "i", "l", "i", "n", "g", " ", "N", "u", "m", "b", "e", "r">>
TdFilingDate == <<"F", "i", "l", "i", "n", "g", " ", "D", "a", "t", "e">>
TdRegistrationNumber == <<"R", "e", "g", "i", "s", "t", "r", "a", "t", "i", "o", "n", " ", "N", "u", "m", "b", "e", "r">>
TdRegistrationDate == <<"R", "e", "g", "i", "s", "t", "r", "a", "t", "i", "o", "n", " ", "D", "a", "t", "e">>
TdCnrNumber == <<"C", "N", "R", " ", "N", "u", "m", "b", "e", "r">>
TdFirstHearingDate == <<"F", "i", "r", "s", "t", " ", "H", "e", "a", "r", "i", "n", "g", " ", "D", "a", "t", "e">>
TdDecisionDate == <<"D", "e", "c", "i", "s", "i", "o", "n", " ", "D", "a", "t", "e">>
TdCaseStatus == <<"C", "a", "s", "e", " ", "S", "t", "a", "t", "u", "s">>
TdNatureOfDisposal == <<"N", "a", "t", "u", "r", "e", " ", "o", "f", " ", "D", "i", "s", "p", "o", "s", "a", "l">>
TdCourtNumberAndJudge == <<"C", "o", "u", "r", "t", " ", "N", "u", "m", "b", "e", "r", " ", "a", "n", "d", " ", "J", "u", "d", "g", "e">>
TxtCaseType == <<"O", "S", " ", "-", " ", "S", "u", "i", "t">>
TxtNumber == <<"1", "2", "/", "2", "0", "1", "9">>
TxtDate1 == <<"0", "1", "-", "0", "2", "-", "2", "0", "1", "9">>
TxtDate2 == <<"1", "5", "-", "0", "6", "-", "2", "0", "2", "1">>
TxtIso2 == <<"2", "0", "2", "1", "-", "0", "6", "-", "1", "5">>
TxtPending == <<"P", "e", "n", "d", "i", "n", "g">>
TxtDecreed == <<"D", "e", "c", "r", "e", "e", "d">>
TxtCourtHall == <<"1", " ", "-", " ", "J", "u", "d", "g", "e">>
TxtPetitioner == <<"1", ")", " ", "A", " ", "A", "d", "v", "o", "c", "a", "t", "e", "-", " ", "X">>
TxtRespondent == <<"2", ")", " ", "B", " ", "A", "d", "v", "o", "c", "a", "t", "e", "-", " ", "X">>
TxtPartyOnly == <<"A">>
TxtActA == <<"A", "c", "t", " ", "A">>
TxtActB == <<"A", "c", "t", " ", "B">>
TxtSec5 == <<"5">>
TxtSec7 == <<"7">>
TxtJudge == <<"J", "u", "d", "g", "e">>
TxtPurpose == <<"H", "e", "a", "r", "i", "n", "g">>
TxtCourtX == <<"C", "o", "u", "r", "t", " ", "X">>
TxtCourtY == <<"C", "o", "u", "r", "t", " ", "Y">>
TxtIaNo == <<"I", "A", "/", "1", "/", "2", "0", "1", "9">>
TxtIaNext == <<"0", "1", "-", "0", "2", "-", "2", "0", "1", "9", "\n", "(", "S", "t", "a", "y", ")">>

\* --------------------------------------------------------- sample fragments

NoFragment == [isNone |-> TRUE]

\* the detail page of a case that exists, with only its CNR number row
MinimalFragment(cnr) ==
    [isNone |-> FALSE, markerSpan |-> FALSE, hasCaseDetails |-> TRUE,
     detailsRows |-> << <<TdCnrNumber, cnr>> >>,
     statusRows |-> <<>>, petitionerRows |-> <<>>, respondentRows |-> <<>>,
     actsRows |-> <<>>, historyRows |-> <<>>, transferRows |-> <<>>,
     iaRows |-> <<>>]

\* a petitioner without advocate and one act with its section
PartyFragment(cnr) ==
    [MinimalFragment(cnr) EXCEPT
        !.petitionerRows = << TxtPartyOnly >>,
        !.actsRows = << <<TxtActA, TxtSec5>> >>]

\* a detail page with every table filled in
FullFragment(cnr) ==
    [MinimalFragment(cnr) EXCEPT
        !.detailsRows = << <<TdCaseType, TxtCaseType>>,
                           <<TdFilingNumber, TxtNumber, TdFilingDate, TxtDate1>>,
                           <<TdRegistrationNumber, TxtNumber,
                             TdRegistrationDate, TxtDate1>>,
                           <<TdCnrNumber, cnr>> >>,
        !.statusRows = << <<TdFirstHearingDate, TxtDate1>>,
                          <<TdDecisionDate, TxtDate2>>,
                          <<TdCaseStatus, CaseDisposed>>,
                          <<TdNatureOfDisposal, TxtDecreed>>,
                          <<TdCourtNumberAndJudge, TxtCourtHall>> >>,
        !.petitionerRows = << TxtPetitioner >>,
        !.respondentRows = << TxtRespondent >>,
        !.actsRows = << <<TxtActA, TxtSec5>> >>,
        !.historyRows = << <<TxtJudge, TxtDate1, TxtDate2, TxtPurpose>>,
                           <<TxtJudge, TxtDate2, <<>>, TxtDecreed>> >>,
        !.transferRows = << <<TxtNumber, TxtDate1, TxtCourtX, TxtCourtY>> >>,
        !.iaRows = << <<TxtIaNo, TxtPartyOnly, TxtDate1, TxtIaNext, TxtPending>> >>]

\* the fragments the store specification persists
StoreFragments ==
    {FullFragment(Cnr1), PartyFragment(Cnr2), MinimalFragment(Cnr1)}


\* ---------------------------------------------------------------- state

VARIABLES
    db,         \* the MySQL tables, each a sequence of rows; a row's id is
                \* its index
    run,        \* run[p]: the insertCase call of process p
    calls,      \* insertCase calls started so far
    failures,   \* statements that have failed so far
    connection, \* Database.connection: "null" or "open"
    initialized,\* Database.initialized
    initPc,     \* initPc[t]: the position of the Database.initialize call
                \* made by t (the scraper's constructor, or run())
    driver,     \* the batch driver: "main" or "run" ("none": no batch)
    maxAttempts,\* the maxAttempts the driver's getCaseDetails calls get
    cnrNumbers, \* the driver's input list
    idx,        \* the index of the identifier being processed
    pc,         \* the driver's position
    appToken,   \* ECourtsScraper.appToken: NoToken, or the token of the
                \* page fetch that set it
    gcd,        \* the frame of the getCaseDetails call
    caseDetails,\* what getCaseDetails returned
    mainOut,    \* main's successfulCases, nonExistentCases, failedCases
    runOut,     \* run()'s results, successfulCases, failedCases
    processed   \* the identifiers whose loop body was entered, in order

storeVars == <<db, run, calls, failures>>

batchVars ==
    <<connection, initialized, initPc, driver, maxAttempts, cnrNumbers, idx,
      pc, appToken, gcd, caseDetails, mainOut, runOut, processed>>

vars == <<storeVars, batchVars>>

\* the processes that can hold a connection to the shared database
Runs == {1, 2}

\* pc: idle, try (in the try block, about to issue steps[i]), catch (in the
\* catch block), returned, threw.  pre is the store when the call started,
\* html and cd the fragment and the record parsed from it.  error is the
\* error the call raised to its caller: none, step (the error of the
\* statement that failed in the try block) or rollback (the error raised by
\* this.connection.rollback() in the catch block).
NoRun ==
    [pc |-> "idle", steps |-> <<>>, i |-> 0, reg |-> NoRegisters,
     failed |-> FALSE, pre |-> EmptyStore, html |-> NoFragment,
     cd |-> EmptyRecord, error |-> "none"]

\* what getCaseDetails returns: null, {cnrNumber, exists: false}, or the
\* parsed record with exists = true
NullDetails ==
    [isNull |-> TRUE, exists |-> FALSE, cnrNumber |-> NullText,
     rec |-> EmptyRecord, html |-> NoFragment]
NotExists(cnr) ==
    [isNull |-> FALSE, exists |-> FALSE, cnrNumber |-> cnr,
     rec |-> EmptyRecord, html |-> NoFragment]
Found(rec, html) ==
    [isNull |-> FALSE, exists |-> TRUE, cnrNumber |-> rec.cnrNumber,
     rec |-> rec, html |-> html]

\* A token or a CAPTCHA text is named by the page fetch that served it:
\* <<getAppTokenAndCaptcha call, pass of its loop>> within the running
\* getCaseDetails call, EarlierToken for a token kept from an earlier call
\* (a call only tests whether a token is held).  The portal serves a new
\* token and a new challenge with every fetch.
NoToken == <<>>
EarlierToken == <<0, 0>>
KeptToken(token) == IF token = NoToken THEN NoToken ELSE EarlierToken

\* the form fields app_token and fcaptcha_code of a submission
NoPost == [app_token |-> NoToken, fcaptcha_code |-> NoToken]

\* the frame of getCaseDetails: attempt is its loop counter, tries the loop
\* counter of the getAppTokenAndCaptcha call in flight, acquisitions and
\* succeeded count the getAppTokenAndCaptcha calls made and those that
\* returned success, captchaText is the const of the loop body, posted the
\* fields of the submission in flight, response the answer to the query.
\* rejected (the submissions of this call answered with errormsg), cause
\* (the class of the call's latest failure) and delayed (the pause at the
\* end of the loop body was slept through) record what has happened.
NoResponse == [kind |-> "none", html |-> NoFragment]

\* what tesseract.recognize gave for one profile: a text, or an error
\* raised; psm is the page segmentation mode of the profile
NoOcr == [kind |-> "none", text |-> <<>>, psm |-> 0]

\* profile is the index in configs of the recognition profile about to run
\* (0 outside the OCR loop), ocr what the profile that ran last gave, text
\* the characters of the captchaText that getAppTokenAndCaptcha returned,
\* slept whether the pass of getAppTokenAndCaptcha that ended last went
\* through the setTimeout of 1000 in its catch block
IdleFrame ==
    [pc |-> "idle", attempt |-> 0, tries |-> 0, acquisitions |-> 0,
     succeeded |-> 0, captchaText |-> NoToken, posted |-> NoPost,
     response |-> NoResponse, rejected |-> {}, cause |-> "none",
     delayed |-> FALSE, profile |-> 0, ocr |-> NoOcr, text |-> <<>>,
     slept |-> FALSE]

StoreInit ==
    /\ db = EmptyStore
    /\ run = [p \in Runs |-> NoRun]
    /\ calls = 0
    /\ failures = 0

\* no batch driver: the connection is open and the schema in place
NoBatch ==
    /\ connection = "open"
    /\ initialized = TRUE
    /\ initPc = [t \in {"constructor", "run"} |-> "done"]
    /\ driver = "none"
    /\ maxAttempts = DefaultMaxAttempts
    /\ cnrNumbers = <<>>
    /\ idx = 0
    /\ pc = "done"
    /\ appToken = NoToken
    /\ gcd = IdleFrame
    /\ caseDetails = NullDetails
    /\ mainOut = [successfulCases |-> <<>>, nonExistentCases |-> <<>>,
                  failedCases |-> <<>>]
    /\ runOut = [results |-> <<>>, successfulCases |-> 0, failedCases |-> 0]
    /\ processed = <<>>

\* insertCase(cd) enters its try block; h is the fragment cd was parsed
\* from
InsertCaseBegin(p, cd, h) ==
    /\ run[p].pc \in {"idle", "returned", "threw"}
    /\ run' = [run EXCEPT ![p] =
                  [pc |-> "try", steps |-> InsertCaseSteps(cd),
                   i |-> 1, reg |-> NoRegisters, failed |-> FALSE,
                   pre |-> db, html |-> h, cd |-> cd, error |-> "none"]]
    /\ calls' = calls + 1
    /\ UNCHANGED <<db, failures>>

\* parseHtml hands its record to insertCase
InsertCaseCall(p, h) ==
    /\ ~parseHtml(h).isNull
    /\ InsertCaseBegin(p, parseHtml(h).rec, h)

\* await this.connection.execute(...): the next statement of the try block.
\* A statement that raises (fail, or a UNIQUE key hit) is swallowed by the
\* try/catch of getOrCreateLitigant and getOrCreateSection and otherwise
\* taken to insertCase's catch block.
InsertCaseStatement(p, fail) ==
    /\ run[p].pc = "try"
    /\ run[p].i <= Len(run[p].steps)
    /\ fail => failures < MaxFailures
    /\ \E e \in {Execute(db, run[p].reg, run[p].steps[run[p].i])} :
          IF ~e.issued
          THEN /\ ~fail
               /\ run' = [run EXCEPT ![p].reg = e.reg, ![p].i = @ + 1]
               /\ UNCHANGED <<db, failures>>
          ELSE IF fail \/ e.dup
          THEN /\ run' = [run EXCEPT ![p] =
                   IF run[p].steps[run[p].i].resolver \in CatchingResolvers
                   THEN [@ EXCEPT !.reg = CatchReturnNull(@, run[p].steps[run[p].i]),
                                  !.i = @ + 1, !.failed = TRUE]
                   ELSE [@ EXCEPT !.pc = "catch", !.failed = TRUE]]
               /\ failures' = IF fail THEN failures + 1 ELSE failures
               /\ UNCHANGED db
          ELSE /\ db' = e.db
               /\ run' = [run EXCEPT ![p].reg = e.reg, ![p].i = @ + 1]
               /\ UNCHANGED failures
    /\ UNCHANGED calls

\* return caseId
InsertCaseReturn(p) ==
    /\ run[p].pc = "try"
    /\ run[p].i > Len(run[p].steps)
    /\ run' = [run EXCEPT ![p].pc = "returned"]
    /\ UNCHANGED <<db, calls, failures>>

\* the error that leaves the catch block: throw error is reached only when
\* await this.connection.rollback() has resolved; a rollback that rejects
\* raises its own error out of the catch block
ThrownError(rollbackFails) == IF rollbackFails THEN "rollback" ELSE "step"

\* catch (error) { await this.connection.rollback(); throw error; }
\* rollbackFails: the server rejects the rollback (the connection was lost)
InsertCaseCatch(p, rollbackFails) ==
    /\ run[p].pc = "catch"
    /\ db' = Rollback(db)
    /\ run' = [run EXCEPT ![p].pc = "threw",
                          ![p].error = ThrownError(rollbackFails)]
    /\ UNCHANGED <<calls, failures>>

\* ------------------------------------------------ the store specification
\* One process saves parsed records one after the other; any statement may
\* fail.

Init == StoreInit /\ NoBatch

Next ==
    \/ \E h \in StoreFragments :
          calls < MaxCalls /\ InsertCaseCall(1, h) /\ UNCHANGED batchVars
    \/ \E fail \in BOOLEAN :
          InsertCaseStatement(1, fail) /\ UNCHANGED batchVars
    \/ InsertCaseReturn(1) /\ UNCHANGED batchVars
    \/ \E rollbackFails \in BOOLEAN :
          InsertCaseCatch(1, rollbackFails) /\ UNCHANGED batchVars

Spec == Init /\ [][Next]_vars

\* ------------------------------------------------ claims on insertCase

\* the tables that hold a case and its child rows
CaseTables ==
    {"cases", "case_litigants", "case_acts", "case_history", "case_transfers",
     "case_ias"}

\* the tables of the reference entities
ReferenceTables ==
    {"states", "districts", "courts", "court_halls", "case_types",
     "litigants", "advocates", "acts", "sections"}

\* the natural key of a reference row: the columns its resolver selects by
\* (case_types are selected by short_form alone)
NaturalKey(t, row) == IF t = "case_types" THEN row.short_form ELSE row

\* C1: insertCase is all-or-nothing: once a call has failed and re-raised,
\* no cases row and no child row written by that call remains in the store.
C1_AllOrNothing ==
    run[1].pc = "threw" => \A t \in CaseTables : db[t] = run[1].pre[t]

\* C2: resolving the same natural key twice, within one insertCase call or
\* across insertCase calls, leaves exactly one row with that key in the
\* entity's table.
C2_OneRowPerKey ==
    run[1].pc = "returned" /\ ~run[1].failed =>
        \A t \in ReferenceTables :
            \A i, j \in 1..Len(db[t]) :
                NaturalKey(t, db[t][i]) = NaturalKey(t, db[t][j]) => i = j

\* C8: insertCase never returns a case id after one of its statements,
\* a resolver's statement included, has failed.
C8_FailureRaises ==
    run[1].pc = "returned" => ~run[1].failed

\* the place of a table in the order of writes of one call: litigants rows
\* are written for the parties (5) and for the parties of the IAs (9),
\* advocates rows for the parties only
EarliestStage(t) ==
    CASE t \in {"states", "districts"} -> 1
      [] t \in {"courts", "court_halls"} -> 2
      [] t = "case_types" -> 3
      [] t = "cases" -> 4
      [] t \in {"case_litigants", "litigants", "advocates"} -> 5
      [] t \in {"acts", "sections", "act_sections", "case_acts"} -> 6
      [] t = "case_history" -> 7
      [] t = "case_transfers" -> 8
      [] t = "case_ias" -> 9
      [] t = "failed_cases" -> 10

LatestStage(t) == IF t = "litigants" THEN 9 ELSE EarliestStage(t)

\* the tables whose rows carry a case_id
ChildTables == CaseTables \ {"cases"}

\* C16: within one insertCase call no table is written after a table of a
\* later group (state and district, court and court hall, case type, the
\* cases row, the parties, the acts, the history, the transfers, the IAs),
\* the petitioner's case_litigants row is written before the respondent's,
\* and a child row is written only when its cases row exists.
C16_WriteOrder ==
    [][run[1].pc = "try" =>
          \A t \in DOMAIN db :
              db'[t] # db[t] =>
                  /\ \A u \in DOMAIN db :
                        db[u] # run[1].pre[u] => EarliestStage(u) <= LatestStage(t)
                  /\ t \in ChildTables \cup {"litigants", "advocates"} =>
                        /\ run[1].reg.caseId \in 1..Len(db.cases)
                        /\ Len(db.cases) > Len(run[1].pre.cases)
                  /\ t \in ChildTables =>
                        db'[t][Len(db'[t])].case_id = run[1].reg.caseId
                  /\ t = "case_litigants" =>
                        \A k \in 1..Len(db[t]) :
                            /\ db[t][k].case_id = run[1].reg.caseId
                            /\ db[t][k].party_type = "Respondent"
                            => db'[t][Len(db'[t])].party_type = "Respondent"]_vars

\* a call has written every table, from states to case_ias, and returned
C16_Witness ==
    /\ run[1].pc = "returned"
    /\ \A t \in DOMAIN db \ {"failed_cases"} : db[t] # run[1].pre[t]
    /\ Len(db.case_litigants) - Len(run[1].pre.case_litigants) = 2

\* the child tables a case's lists are written to
ListTables == {"case_history", "case_transfers", "case_ias", "case_acts"}

\* the case_history rows of case id, in the order of their ids
HistoryOf(store, id) ==
    SelectSeq(store.case_history, LAMBDA r : r.case_id = id)

\* C26: the rows of case_history, case_transfers, case_ias and case_acts are
\* written only inside the insertCase call that inserted the parent cases
\* row, the case_history rows in the order of the extracted history list,
\* and no step later changes or removes any of them.
C26_ChildRowsWrittenOnce ==
    [][/\ \A t \in ListTables :
             /\ Len(db'[t]) >= Len(db[t])
             /\ \A k \in 1..Len(db[t]) : db'[t][k] = db[t][k]
             /\ \A k \in (Len(db[t]) + 1)..Len(db'[t]) :
                   /\ run[1].pc = "try"
                   /\ db'[t][k].case_id = run[1].reg.caseId
                   /\ run[1].reg.caseId > Len(run[1].pre.cases)
                   /\ run[1].reg.caseId <= Len(db.cases)
       /\ run'[1].pc = "returned" =>
             LET stored == HistoryOf(db', run'[1].reg.caseId)
                 list == run'[1].cd.caseHistory
             IN /\ Len(stored) = Len(list)
                /\ \A n \in 1..Len(list) :
                      /\ stored[n].judge = list[n].judge
                      /\ stored[n].purpose = list[n].purpose
                      /\ stored[n].business_date = parseDate(list[n].businessDate)
      ]_vars

\* a second case was saved after a case with two history entries, whose
\* rows are still the first two of case_history
C26_Witness ==
    /\ calls = 2
    /\ run[1].pc = "returned"
    /\ Len(HistoryOf(db, 1)) = 2
    /\ db.case_history[1].purpose = TxtPurpose
    /\ db.case_history[2].purpose = TxtDecreed
    /\ Len(db.cases) = 2

\* C28: after any sequence of insertCase calls run one after another the
\* acts table holds one row per normalized act name, a repeated
\* getOrCreateAct returning the id of the existing row and leaving its name
\* alone, and act_sections holds at most one row per (act, section) pair.
C28_OneRowPerAct ==
    [][/\ \A i, j \in 1..Len(db'.acts) :
             db'.acts[i].name = db'.acts[j].name => i = j
       /\ \A i, j \in 1..Len(db'.act_sections) :
             db'.act_sections[i] = db'.act_sections[j] => i = j
       /\ \A i \in 1..Len(db.acts) :
             i <= Len(db'.acts) /\ db'.acts[i] = db.acts[i]
       /\ /\ run[1].pc = "try"
          /\ run'[1].pc = "try"
          /\ run'[1].i = run[1].i + 1
          /\ run[1].steps[run[1].i].op = "acts.select"
          => /\ run'[1].reg.actId \in 1..Len(db.acts)
             /\ db.acts[run'[1].reg.actId].name = run[1].steps[run[1].i].arg
      ]_vars

\* the second call named an act and a section the first call had stored:
\* both calls are linked to the one acts row and the one pair
C28_Witness ==
    /\ calls = 2
    /\ run[1].pc = "returned"
    /\ Len(db.acts) = 1
    /\ Len(db.act_sections) = 1
    /\ Len(db.case_acts) = 2
    /\ db.case_acts[1].case_id # db.case_acts[2].case_id

\* -------------------------------------------- the extract specification
\* One fragment is parsed and its record persisted, no statement failing.
\* The fragments vary the rows of the status table, in every order, and the
\* rows of the acts table, with blank sections at every position.

SeqsUpTo(S, n) == UNION {[1..k -> S] : k \in 0..n}

StatusRowChoices ==
    { <<TdCaseStatus, CaseDisposed>>, <<TdCaseStatus, TxtPending>>,
      <<TdDecisionDate, TxtDate2>> }

ActRowChoices ==
    { <<TxtActA, TxtSec5>>, <<TxtActA, <<>>>>,
      <<TxtActB, TxtSec7>>, <<TxtActB, <<>>>> }

ExtractFragments ==
    {[MinimalFragment(Cnr1) EXCEPT !.statusRows = rows] :
        rows \in SeqsUpTo(StatusRowChoices, MaxStatusRows)}
    \cup
    {[MinimalFragment(Cnr1) EXCEPT !.actsRows = rows] :
        rows \in SeqsUpTo(ActRowChoices, MaxActRows)}

NextExtract ==
    \/ \E h \in ExtractFragments :
          calls = 0 /\ InsertCaseCall(1, h) /\ UNCHANGED batchVars
    \/ InsertCaseStatement(1, FALSE) /\ UNCHANGED batchVars
    \/ InsertCaseReturn(1) /\ UNCHANGED batchVars

SpecExtract == Init /\ [][NextExtract]_vars

\* the value of the last row of the table that carries the label
LastWith(rows, label) ==
    LET at == {i \in 1..Len(rows) : rows[i][1] = label}
    IN IF at = {} THEN NullText
       ELSE rows[CHOOSE i \in at : \A j \in at : j <= i][2]

\* C9: a status table with case status exactly 'Case disposed' and a
\* decision date D, the two rows in whatever order, gives disposalDate = D
\* and the persisted disposal_date is the parsed D; any other final case
\* status leaves disposalDate null.
C9_DisposalDate ==
    run[1].pc = "returned" =>
        LET rows == run[1].html.statusRows
            D == LastWith(rows, TdDecisionDate)
        IN IF LastWith(rows, TdCaseStatus) = CaseDisposed /\ D # NullText
           THEN /\ run[1].cd.disposalDate = D
                /\ db.cases[run[1].reg.caseId].disposal_date = parseDate(D)
           ELSE run[1].cd.disposalDate = NullText

\* the (act name, section number) pairs stored in act_sections
StoredPairs ==
    {<<db.acts[db.act_sections[k].act_id].name,
       db.sections[db.act_sections[k].section_id].section_number>> :
        k \in 1..Len(db.act_sections)}

\* the acts linked to case id
LinkedActs(id) ==
    {db.acts[db.case_acts[k].act_id].name :
        k \in {n \in 1..Len(db.case_acts) : db.case_acts[n].case_id = id}}

\* C10: the section paired with the act of row i is the section text of that
\* same row; a row with an act and a blank section, at any position, links
\* the act to the case with no act-section pair and shifts no later section
\* onto an earlier act.
C10_RowAlignment ==
    run[1].pc = "returned" =>
        LET rows == run[1].html.actsRows
        IN /\ StoredPairs =
                {<<rows[i][1], rows[i][2]>> :
                    i \in {n \in 1..Len(rows) : rows[n][2] # <<>>}}
           /\ LinkedActs(run[1].reg.caseId) =
                {rows[i][1] : i \in 1..Len(rows)}

\* C24: for every case at most one case_acts row exists per (case, act)
\* pair, also when the same act name appears in several rows of the case's
\* acts list.
C24_OneLinkPerAct ==
    run[1].pc = "returned" =>
        \A i, j \in 1..Len(db.case_acts) :
            /\ db.case_acts[i].case_id = db.case_acts[j].case_id
            /\ db.case_acts[i].act_id = db.case_acts[j].act_id
            => i = j

\* ------------------------------------------ the normalize specification
\* One fragment is parsed and its record persisted, no statement failing.
\* The fragments vary the text of the petitioner cell, which insertCase
\* passes through cleanLitigantName, and the text of the decision date cell,
\* which it passes through parseDate.

SampleName == <<"2", ")", " ", "J", "o", "h", "n", " ", "D", "o", "e", ",", " ", "E", "s", "q", ".">>
JohnDoeEsq == <<"J", "o", "h", "n", " ", "D", "o", "e", " ", "E", "s", "q">>

NameInputs ==
    {SampleName} \cup SeqsUpTo({"2", ")", " ", "J", ","}, MaxTextLen)

Date20200201 == <<"2", "0", "2", "0", "-", "0", "2", "-", "0", "1">>
DateDashes == <<"0", "1", "-", "0", "2", "-", "2", "0", "2", "0">>
DateSlashes == <<"0", "1", "/", "0", "2", "/", "2", "0", "2", "0">>
DateOrdinal == <<"1", "s", "t", " ", "F", "e", "b", "r", "u", "a", "r", "y", " ", "2", "0", "2", "0">>
DateShortMonth == <<"0", "1", "-", "F", "e", "b", "-", "2", "0", "2", "0">>
DateImpossible == <<"3", "1", "-", "0", "2", "-", "2", "0", "2", "0">>
DateWords == <<"n", "e", "x", "t", " ", "w", "e", "e", "k">>

\* the inputs that stand for the first of February 2020
SampleDates ==
    {DateDashes, DateSlashes, Date20200201, DateOrdinal, DateShortMonth}

\* empty and unparsable texts: no text of fewer than eight characters is a
\* date in any of the five formats
NoDateInputs ==
    {DateImpossible, DateWords}
    \cup SeqsUpTo({"1", "-", "s", "t"}, MaxTextLen)

NormalizeFragments ==
    {[MinimalFragment(Cnr1) EXCEPT !.petitionerRows = << n >>] :
        n \in NameInputs}
    \cup
    {[MinimalFragment(Cnr1) EXCEPT !.statusRows = << <<TdDecisionDate, d>> >>] :
        d \in SampleDates \cup NoDateInputs}

NextNormalize ==
    \/ \E h \in NormalizeFragments :
          calls = 0 /\ InsertCaseCall(1, h) /\ UNCHANGED batchVars
    \/ InsertCaseStatement(1, FALSE) /\ UNCHANGED batchVars
    \/ InsertCaseReturn(1) /\ UNCHANGED batchVars

SpecNormalize == Init /\ [][NextNormalize]_vars

\* C19: the litigant name stored for a petitioner has its numeric list
\* prefix and its punctuation removed and its whitespace runs collapsed:
\* it never holds two whitespace characters in a row, and '2) John Doe,
\* Esq.' is stored as exactly 'John Doe Esq'.
C19_CleanName ==
    run[1].pc = "returned" =>
        /\ \A k \in 1..Len(db.litigants) :
              LET name == db.litigants[k].litigant_name
              IN \A i \in 1..(Len(name) - 1) :
                    ~(name[i] \in Spaces /\ name[i + 1] \in Spaces)
        /\ run[1].html.petitionerRows = << SampleName >> =>
              db.litigants = << [litigant_name |-> JohnDoeEsq] >>

\* C20: each of '01-02-2020', '01/02/2020', '2020-02-01', '1st February
\* 2020' and '01-Feb-2020' is stored as '2020-02-01', and an empty or
\* unparsable date text leaves the case persisted with a null date.
C20_ParseDate ==
    run[1].pc = "returned" /\ run[1].html.statusRows # <<>> =>
        LET d == run[1].html.statusRows[1][2]
            stored == db.cases[run[1].reg.caseId].decision_date
        IN /\ d \in SampleDates => stored = Date20200201
           /\ d \in NoDateInputs => stored = NullText

\* ---------------------------------------------- the parse specification
\* parseHtml is called on one fragment and, when it returns a record, the
\* record is persisted, no statement failing.  The fragments vary the text
\* of the CNR cell around the sixteen characters kept, the marker span and
\* the 'Case Details' text, the rows of the two party tables, and an act
\* whose name carries its year after a comma.

\* the longest CNR cell text is MaxCnrExtra characters over CnrWidth
MaxCnrExtra == 2
\* the rows of a party table
MaxPartyRows == 2

CnrLong == Cnr1 \o [i \in 1..MaxCnrExtra |-> "X"]

CnrTexts ==
    {pad \o SubSeq(CnrLong, 1, k) \o pad :
        k \in 0..Len(CnrLong), pad \in {<<>>, <<" ">>}}

TxtPartyB == <<"B">>
TxtActYear == <<"A", "c", "t", " ", "A", ",", " ", "2", "0", "1", "9">>
TxtYear == <<"2", "0", "1", "9">>

PartyRowChoices == {TxtPetitioner, TxtPartyOnly, TxtPartyB}

\* texts of the 'Court Number and Judge' cell
HallPlain == <<"1", " ", "-", " ", "R", "a", "o">>
HallTwoHyphens == <<"1", "2", "-", "R", " ", "-", " ", "S">>
HallAfterWord == <<"H", "a", "l", "l", " ", "3", " ", "-", " ", "R", "a", "o">>
HallNoHyphen == <<"1", " ", "R", "a", "o">>
HallNoDigits == <<"R", "a", "o", " ", "-", " ", "S">>
HallNoName == <<"7", " ", "-">>
CourtHallInputs ==
    {HallPlain, HallTwoHyphens, HallAfterWord, HallNoHyphen, HallNoDigits,
     HallNoName, <<>>}

TxtKumarListed == <<"1", ")", " ", "A", ".", " ", "K", "u", "m", "a", "r">>
TxtKumar == <<"A", " ", "K", "u", "m", "a", "r">>

\* a petitioner who is also the party of an interlocutory application
SamePartyFragment(petitioner, party) ==
    [MinimalFragment(Cnr1) EXCEPT
        !.petitionerRows = << petitioner >>,
        !.iaRows = << <<TxtIaNo, party, TxtDate1, TxtIaNext, TxtPending>> >>]

ParseFragments ==
    {NoFragment, [MinimalFragment(Cnr1) EXCEPT !.detailsRows = <<>>],
     SamePartyFragment(TxtKumarListed, TxtKumar),
     SamePartyFragment(TxtKumar, TxtKumar),
     [MinimalFragment(Cnr1) EXCEPT !.detailsRows = << <<TdCnrNumber>> >>],
     [MinimalFragment(Cnr1) EXCEPT
        !.detailsRows = << <<TdCnrNumber, Cnr1>>, <<TdCnrNumber, <<" ">>>> >>],
     [MinimalFragment(Cnr1) EXCEPT !.actsRows = << <<TxtActYear, TxtSec5>> >>],
     [MinimalFragment(Cnr1) EXCEPT
        !.actsRows = << <<TxtActYear, TxtSec5>>, <<TxtActB, TxtSec7>> >>]}
    \cup
    {[MinimalFragment(c) EXCEPT !.markerSpan = m, !.hasCaseDetails = d] :
        c \in CnrTexts, m \in BOOLEAN, d \in BOOLEAN}
    \cup
    {[MinimalFragment(Cnr1) EXCEPT
        !.statusRows = << <<TdCourtNumberAndJudge, t>> >>] :
        t \in CourtHallInputs}
    \cup
    {[MinimalFragment(Cnr1) EXCEPT !.petitionerRows = rows] :
        rows \in SeqsUpTo(PartyRowChoices, MaxPartyRows)}
    \cup
    {[MinimalFragment(Cnr1) EXCEPT !.respondentRows = rows] :
        rows \in SeqsUpTo(PartyRowChoices, MaxPartyRows)}

\* parseHtml(html) is entered with the fragment h
ParseHtmlCall(h) ==
    /\ gcd.pc = "idle"
    /\ calls = 0
    /\ gcd' = [IdleFrame EXCEPT !.pc = "parse",
                                !.response = [kind |-> "ok", html |-> h]]
    /\ UNCHANGED <<storeVars, connection, initialized, initPc, driver,
                   maxAttempts, cnrNumbers, idx, pc, appToken, caseDetails,
                   mainOut, runOut, processed>>

\* parseHtml returns the record, or null
ParseHtmlReturn ==
    /\ gcd.pc = "parse"
    /\ gcd' = [gcd EXCEPT !.pc = "parsed"]
    /\ caseDetails' =
          LET parsed == parseHtml(gcd.response.html)
          IN IF parsed.isNull THEN NullDetails
             ELSE Found(parsed.rec, gcd.response.html)
    /\ UNCHANGED <<storeVars, connection, initialized, initPc, driver,
                   maxAttempts, cnrNumbers, idx, pc, appToken, mainOut,
                   runOut, processed>>

\* the caller hands the record to insertCase
ParsedInsert ==
    /\ gcd.pc = "parsed"
    /\ ~caseDetails.isNull
    /\ calls = 0
    /\ InsertCaseBegin(1, caseDetails.rec, caseDetails.html)
    /\ UNCHANGED batchVars

NextParse ==
    \/ \E h \in ParseFragments : ParseHtmlCall(h)
    \/ ParseHtmlReturn
    \/ ParsedInsert
    \/ InsertCaseStatement(1, FALSE) /\ UNCHANGED batchVars
    \/ InsertCaseReturn(1) /\ UNCHANGED batchVars

SpecParse == Init /\ [][NextParse]_vars

\* the text of the value cell of the last 'CNR Number' row, trimmed
CnrCellText(html) ==
    LET rows == html.detailsRows
        at == {i \in 1..Len(rows) : Len(rows[i]) >= 2 /\ rows[i][1] = TdCnrNumber}
    IN IF at = {} THEN <<>>
       ELSE Trim(rows[CHOOSE i \in at : \A j \in at : j <= i][2])

\* C21: whenever parseHtml returns a record, its cnrNumber is the first 16
\* characters of the trimmed text of the 'cnr number' row's value cell: a
\* longer text is cut to exactly 16 characters, a shorter one kept whole.
C21_CnrTruncation ==
    gcd.pc = "parsed" /\ ~caseDetails.isNull =>
        LET text == CnrCellText(caseDetails.html)
            got == caseDetails.rec.cnrNumber
        IN IF Len(text) > 16
           THEN Len(got) = 16 /\ \A i \in 1..16 : got[i] = text[i]
           ELSE got = text

\* a CNR cell longer than sixteen characters was parsed into a record
C21_Witness ==
    /\ gcd.pc = "parsed"
    /\ ~caseDetails.isNull
    /\ Len(CnrCellText(caseDetails.html)) > 16

\* some 'CNR Number' row of the details table has a value cell that is not
\* blank
CnrFound(html) ==
    \E i \in 1..Len(html.detailsRows) :
        LET cols == html.detailsRows[i]
        IN /\ Len(cols) >= 2
           /\ cols[1] = TdCnrNumber
           /\ \E k \in 1..Len(cols[2]) : cols[2][k] \notin Spaces

LastRowParty(rows) ==
    LET text == Trim(rows[Len(rows)])
        parts == Split(text, AdvocateDelimiter)
    IN IF Len(parts) >= 2
       THEN [name |-> Trim(parts[1]), advocate |-> Trim(parts[2])]
       ELSE [name |-> text, advocate |-> NullText]

\* C29: for the petitioner table and for the respondent table, the
\* record's party name and advocate come from the same table row: when the
\* row that determines the name has no 'Advocate-' delimiter the advocate
\* is null and the name is the whole cell text, also when an earlier row of
\* the table carried an advocate.
C29_PartyFromOneRow ==
    gcd.pc = "parsed" /\ ~caseDetails.isNull =>
        LET html == caseDetails.html
            rec == caseDetails.rec
        IN /\ html.petitionerRows # <<>> =>
                /\ rec.petitionerName = LastRowParty(html.petitionerRows).name
                /\ rec.petitionerAdvocate =
                      LastRowParty(html.petitionerRows).advocate
           /\ html.respondentRows # <<>> =>
                /\ rec.respondentName = LastRowParty(html.respondentRows).name
                /\ rec.respondentAdvocate =
                      LastRowParty(html.respondentRows).advocate

\* C27: an act whose text in a single row of the acts table is 'Name, YYYY'
\* is persisted through parseHtml and insertCase as exactly one act with
\* the name 'Name, YYYY', linked once to the case; no act is created for
\* 'Name' alone or for the year alone.
C27_ActWithYear ==
    /\ run[1].pc = "returned"
    /\ run[1].html.actsRows = << <<TxtActYear, TxtSec5>> >>
    => /\ db.acts = << [name |-> TxtActYear] >>
       /\ Len(db.case_acts) = 1

\* ----------------------------------------------- the race specification
\* Two runs of the pipeline, each on its own connection to the same store.
\* A statement is atomic on the server; the statements of the two runs
\* interleave in any order.

RaceFragments == {PartyFragment(Cnr1), PartyFragment(Cnr2)}

NextRace ==
    \E p \in Runs :
        \/ \E h \in RaceFragments :
              /\ run[p].pc = "idle"
              /\ InsertCaseCall(p, h)
              /\ UNCHANGED batchVars
        \/ InsertCaseStatement(p, FALSE) /\ UNCHANGED batchVars
        \/ InsertCaseReturn(p) /\ UNCHANGED batchVars
        \/ InsertCaseCatch(p, FALSE) /\ UNCHANGED batchVars

SpecRace == Init /\ [][NextRace]_vars

\* C3: two concurrent runs that resolve the same cleaned litigant name, their
\* lookup and insert statements interleaved in any order, leave at most one
\* litigants row with that name and obtain the same identifier.
C3_ConcurrentResolution ==
    (\A p \in Runs : run[p].pc = "returned")
    /\ run[1].cd.petitionerName = run[2].cd.petitionerName
    => /\ \A i, j \in 1..Len(db.litigants) :
              db.litigants[i].litigant_name = db.litigants[j].litigant_name
              => i = j
       /\ run[1].reg.litigantId = run[2].reg.litigantId

\* ------------------------------------------------------ token and CAPTCHA

\* a loop that makes one pass too many
RetriesLeftInclusive(attempt, maxRetries) == attempt <= maxRetries

\* for (let attempt = 0; attempt < maxRetries; attempt++)
RetriesLeft(attempt, maxRetries) == attempt < maxRetries

\* what the requests of one pass of getAppTokenAndCaptcha's loop body can
\* come to: the page request raises (error), the page holds no app_token
\* (notoken), the token is stored and the CAPTCHA request gives no image
\* (captcha), or the token is stored and the image is handed to the OCR
\* loop (image)
TokenOutcomes == {"error", "notoken", "captcha", "image"}

\* the psm of configs[0], configs[1], configs[2]
OcrProfiles == <<7, 8, 13>>

\* cleanedText.length >= 4 && cleanedText.length <= 8
CaptchaMinLen == 4
CaptchaMaxLen == 8

\* captchaText.trim().replace(/[^0-9A-Za-z]/g, "")
CleanCaptcha(text) ==
    SelectSeq(Trim(text), LAMBDA c : c \in Digits \cup Letters)

\* the test of extractCaptchaText: no upper bound
AcceptableLoose(cleaned) == ~Falsy(cleaned) /\ Len(cleaned) >= CaptchaMinLen

\* cleanedText && cleanedText.length >= 4 && cleanedText.length <= 8
Acceptable(cleaned) ==
    /\ ~Falsy(cleaned)
    /\ Len(cleaned) >= CaptchaMinLen
    /\ Len(cleaned) <= CaptchaMaxLen

\* what a recognition profile can give
OcrRaises == [kind |-> "raises", text |-> <<>>]
OcrShort == [kind |-> "text", text |-> <<"a", "1", "-">>]
OcrDirty == [kind |-> "text", text |-> <<" ", "a", "-", "1", "B", " ", "2", "\n">>]
OcrEight == [kind |-> "text", text |-> <<"a", "b", "c", "d", "1", "2", "3", "4">>]
OcrNine == [kind |-> "text", text |-> <<"a", "b", "c", "d", "1", "2", "3", "4", "5">>]
OcrOutputs == {OcrRaises, OcrShort, OcrDirty, OcrEight, OcrNine}
\* the outputs the batch specification draws from
BatchOcrOutputs == {OcrRaises, OcrDirty}

scraperVars == <<appToken, gcd, caseDetails>>

\* the failure classes, as the log messages of the source tell them apart
FailureClasses ==
    {"RequestFailed", "TokenUnavailable", "CaptchaUnsolved", "ParseFailed"}

\* the class of a pass of getAppTokenAndCaptcha that did not succeed
AcquisitionFailure(outcome) ==
    CASE outcome = "error" -> "RequestFailed"
      [] outcome = "notoken" -> "TokenUnavailable"
      [] outcome = "captcha" -> "CaptchaUnsolved"

\* await new Promise((resolve) => setTimeout(resolve, 1000)) is a statement
\* of the catch block: only a pass that raised goes through it
SleepsAfter(outcome) == outcome = "error"

\* a store that keeps the token it already has
KeepToken(old, fetched) == IF old = NoToken THEN fetched ELSE old

\* this.appToken = response.data.slice(tokenStart, tokenEnd)
StoreToken(old, fetched) == fetched

\* the requests of one pass of the loop body of getAppTokenAndCaptcha,
\* called by getCaseDetails before its loop (initial: const { success }) or
\* inside it (cycle: const { success, captchaText })
TokenAttempt(outcome) ==
    /\ gcd.pc \in {"initial", "cycle"}
    /\ gcd.profile = 0
    /\ RetriesLeft(gcd.tries, DefaultMaxRetries)
    /\ LET fetched == <<gcd.acquisitions, gcd.tries + 1>>
       IN /\ appToken' = IF outcome \in {"captcha", "image"}
                         THEN StoreToken(appToken, fetched) ELSE appToken
          /\ gcd' = IF outcome = "image"
                    THEN [gcd EXCEPT !.profile = 1, !.ocr = NoOcr,
                                     !.slept = FALSE]
                    ELSE [gcd EXCEPT !.tries = @ + 1, !.ocr = NoOcr,
                                     !.cause = AcquisitionFailure(outcome),
                                     !.slept = SleepsAfter(outcome)]
    /\ UNCHANGED caseDetails

\* for (const config of configs): the profile about to run gives output.
\* A text that passes the test is returned at once; an error raised is
\* caught and the loop goes on; after the last profile the pass is over and
\* the for loop of getAppTokenAndCaptcha goes to its next attempt.
Recognize(output) ==
    /\ gcd.pc \in {"initial", "cycle"}
    /\ gcd.profile \in 1..Len(OcrProfiles)
    /\ LET fetched == <<gcd.acquisitions, gcd.tries + 1>>
           read == [kind |-> output.kind, text |-> output.text,
                    psm |-> OcrProfiles[gcd.profile]]
           cleanedText == CleanCaptcha(output.text)
       IN gcd' = IF output.kind = "text" /\ Acceptable(cleanedText)
                 THEN [gcd EXCEPT
                         !.pc = IF gcd.pc = "initial" THEN "loop" ELSE "query",
                         !.tries = 0, !.succeeded = @ + 1,
                         !.profile = 0, !.ocr = read,
                         !.captchaText = IF gcd.pc = "initial" THEN NoToken
                                         ELSE fetched,
                         !.text = IF gcd.pc = "initial" THEN <<>>
                                  ELSE cleanedText]
                 ELSE IF gcd.profile < Len(OcrProfiles)
                 THEN [gcd EXCEPT !.profile = @ + 1, !.ocr = read]
                 ELSE [gcd EXCEPT !.profile = 0, !.ocr = read,
                                  !.tries = @ + 1,
                                  !.cause = AcquisitionFailure("captcha"),
                                  !.slept = SleepsAfter("captcha")]
    /\ UNCHANGED <<appToken, caseDetails>>

\* return { success: false, captchaText: null }: getCaseDetails returns null
\* before its loop, and continues with the next attempt inside it
TokenExhausted ==
    /\ gcd.pc \in {"initial", "cycle"}
    /\ ~RetriesLeft(gcd.tries, DefaultMaxRetries)
    /\ gcd.profile = 0
    /\ IF gcd.pc = "initial"
       THEN /\ gcd' = [gcd EXCEPT !.pc = "return", !.tries = 0,
                                  !.ocr = NoOcr, !.slept = FALSE]
            /\ caseDetails' = NullDetails
       ELSE /\ gcd' = [gcd EXCEPT !.pc = "loop", !.tries = 0,
                                  !.attempt = @ + 1, !.ocr = NoOcr,
                                  !.slept = FALSE]
            /\ UNCHANGED caseDetails
    /\ UNCHANGED appToken

\* --------------------------------------------------------- getCaseDetails

\* generateCNRNumber of the command-line entry point
Prefix == <<"K", "L", "K", "N", "0", "1">>
Year2019 == <<"2", "0", "1", "9">>
\* the width startNumber is padded to
NumberWidth == 6

\* `${prefix}${paddedNumber}${year}`
generateCNRNumber(startNumber) == Prefix \o Pad(startNumber, NumberWidth) \o Year2019

\* the detail page of an identifier that does not exist
MarkerFragment(cnr) ==
    [MinimalFragment(cnr) EXCEPT !.markerSpan = TRUE, !.hasCaseDetails = FALSE,
                                 !.detailsRows = <<>>]

\* a page without case details
BlankFragment(cnr) ==
    [MinimalFragment(cnr) EXCEPT !.hasCaseDetails = FALSE, !.detailsRows = <<>>]

\* the pages of the identifiers of a batch, and parseHtml tabulated over them
BatchPages(cnr) == {MarkerFragment(cnr), MinimalFragment(cnr), BlankFragment(cnr)}
ParsedPages ==
    [h \in UNION {BatchPages(generateCNRNumber(i)) : i \in 1..MaxCnr} |->
        parseHtml(h)]

\* a check that never sees the marker
NeverIncludesMarker(html) == FALSE

\* htmlContent.includes("This Case Code does not exists")
IncludesMarker(html) == html.markerSpan

\* what the server can answer to the query for cnr: a request that raises,
\* a status other than 200, a body with errormsg, or a body with a page
Responses(cnr) ==
    {[kind |-> k, html |-> NoFragment] : k \in {"error", "http", "errormsg"}}
    \cup {[kind |-> "ok", html |-> h] : h \in BatchPages(cnr)}

\* if (!this.appToken) { ... getAppTokenAndCaptcha() ... }
GetCaseDetailsEnter ==
    /\ pc = "getCaseDetails"
    /\ gcd.pc = "enter"
    /\ gcd' = IF appToken # NoToken THEN [gcd EXCEPT !.pc = "loop"]
              ELSE [gcd EXCEPT !.pc = "initial", !.tries = 0,
                               !.acquisitions = @ + 1]
    /\ UNCHANGED <<appToken, caseDetails>>

\* for (let attempt = 0; attempt < maxAttempts; attempt++), and the return
\* null after the loop
GetCaseDetailsLoop ==
    /\ gcd.pc = "loop"
    /\ IF gcd.attempt < maxAttempts
       THEN /\ gcd' = [gcd EXCEPT !.pc = "cycle", !.tries = 0,
                                  !.acquisitions = @ + 1,
                                  !.captchaText = NoToken, !.delayed = FALSE,
                                  !.ocr = NoOcr, !.text = <<>>]
            /\ UNCHANGED caseDetails
       ELSE /\ gcd' = [gcd EXCEPT !.pc = "return", !.delayed = FALSE,
                                  !.ocr = NoOcr, !.text = <<>>]
            /\ caseDetails' = NullDetails
    /\ UNCHANGED appToken

\* session.get(baseUrl), then session.post(searchUrl, data) with
\* fcaptcha_code = captchaText and app_token = this.appToken
GetCaseDetailsQuery ==
    /\ gcd.pc = "query"
    /\ \E response \in Responses(cnrNumbers[idx]) :
          gcd' = [gcd EXCEPT !.pc = "response", !.response = response,
                            !.posted = [app_token |-> appToken,
                                        fcaptcha_code |-> gcd.captchaText],
                            !.ocr = NoOcr, !.text = <<>>]
    /\ UNCHANGED <<appToken, caseDetails>>

\* the class of a cycle whose submission did not give a result
ResponseFailure(response) ==
    CASE response.kind \in {"error", "http"} -> "RequestFailed"
      [] response.kind = "errormsg" -> "CaptchaUnsolved"
      [] response.kind = "ok" -> "ParseFailed"

\* if (attempt < maxAttempts - 1) await new Promise(... 2000): reached by a
\* status other than 200 and by a page parseHtml gives null for; the
\* `continue` of the other failure paths goes past it
ReachesDelay(response) == response.kind \in {"http", "ok"}

\* the rest of the loop body: every path that does not return goes on to
\* the next attempt
GetCaseDetailsResponse ==
    /\ gcd.pc = "response"
    /\ IF gcd.response.kind = "ok" /\ IncludesMarker(gcd.response.html)
       THEN /\ caseDetails' = NotExists(cnrNumbers[idx])
            /\ gcd' = [gcd EXCEPT !.pc = "return", !.response = NoResponse,
                                  !.posted = NoPost, !.captchaText = NoToken,
                                  !.cause = "none"]
       ELSE IF gcd.response.kind = "ok" /\ ~ParsedPages[gcd.response.html].isNull
       THEN /\ caseDetails' = Found(ParsedPages[gcd.response.html].rec,
                                    gcd.response.html)
            /\ gcd' = [gcd EXCEPT !.pc = "return", !.response = NoResponse,
                                  !.posted = NoPost, !.captchaText = NoToken,
                                  !.cause = "none"]
       ELSE /\ gcd' = [gcd EXCEPT
                          !.pc = "loop", !.attempt = @ + 1,
                          !.response = NoResponse, !.posted = NoPost,
                          !.captchaText = NoToken,
                          !.rejected = IF gcd.response.kind = "errormsg"
                                       THEN @ \cup {gcd.posted} ELSE @,
                          !.cause = ResponseFailure(gcd.response),
                          !.delayed = /\ ReachesDelay(gcd.response)
                                      /\ gcd.attempt + 1 < maxAttempts]
            /\ UNCHANGED caseDetails
    /\ UNCHANGED appToken

\* the steps of the scraper, the OCR profiles giving outputs of ocrOutputs
ScraperStep(ocrOutputs) ==
    /\ \/ \E outcome \in TokenOutcomes : TokenAttempt(outcome)
       \/ \E output \in ocrOutputs : Recognize(output)
       \/ TokenExhausted
       \/ GetCaseDetailsEnter
       \/ GetCaseDetailsLoop
       \/ GetCaseDetailsQuery
       \/ GetCaseDetailsResponse
    /\ UNCHANGED <<storeVars, connection, initialized, initPc, driver,
                   maxAttempts, cnrNumbers, idx, pc, mainOut, runOut, processed>>

\* ---------------------------------------------------- Database.initialize

\* this.connection = await mysql.createConnection(...)
DbConnect(t, ok) ==
    /\ initPc[t] = "connecting"
    /\ connection' = IF ok THEN "open" ELSE connection
    /\ initPc' = [initPc EXCEPT ![t] = IF ok THEN "schema" ELSE "failed"]
    /\ UNCHANGED initialized

\* the statements of schema.sql, then this.initialized = true
DbSchema(t, ok) ==
    /\ initPc[t] = "schema"
    /\ initialized' = (ok \/ initialized)
    /\ initPc' = [initPc EXCEPT ![t] = IF ok THEN "done" ELSE "failed"]
    /\ UNCHANGED connection

InitializeStep ==
    /\ \E t \in {"constructor", "run"}, ok \in BOOLEAN :
          DbConnect(t, ok) \/ DbSchema(t, ok)
    /\ UNCHANGED <<storeVars, driver, maxAttempts, cnrNumbers, idx, pc,
                   scraperVars, mainOut, runOut, processed>>

\* ----------------------------------------------------------- the drivers

\* a failure that ends the batch
AbortBatch(rest) == "done"

\* where a driver goes after a per-identifier failure: the failure is caught
\* inside the loop body and control goes on to the rest of the pass
FailureContinuation(rest) == rest

\* the call started and the driver going on to the rest of the pass
NotAwaited(rest) == rest

\* await db.insertCase(caseDetails): the driver stays at the call until it
\* has returned or raised, and only then goes on to the rest of the pass
AwaitInsertCase(rest) == "insertCase"

\* where run() goes after its loop body has run to its end:
\* if (idx < totalCases - 1) await new Promise(... 2000)
RunBodyEnd == IF idx < Len(cnrNumbers) THEN "delay" ELSE "loop"

\* insertCase on a connection that is null: connection.execute raises a
\* TypeError in the try block and connection.rollback() another in the catch
\* block
InsertCaseNoConnection(p, cd, h) ==
    /\ run' = [run EXCEPT ![p] =
                  [pc |-> "threw", steps |-> InsertCaseSteps(cd), i |-> 1,
                   reg |-> NoRegisters, failed |-> TRUE, pre |-> db,
                   html |-> h, cd |-> cd, error |-> ThrownError(TRUE)]]
    /\ calls' = calls + 1
    /\ UNCHANGED <<db, failures>>

\* the head of the for loop of main and of run(): the next identifier, or
\* the end (main's db.cleanup() included)
DriverLoop ==
    /\ pc \in {"loop", "paced"}
    /\ IF idx < Len(cnrNumbers)
       THEN /\ idx' = idx + 1
            /\ processed' = Append(processed, cnrNumbers[idx + 1])
            /\ pc' = "getCaseDetails"
            /\ gcd' = [IdleFrame EXCEPT !.pc = "enter"]
            /\ appToken' = KeptToken(appToken)
            /\ caseDetails' = NullDetails
            /\ UNCHANGED <<connection, initialized>>
       ELSE /\ pc' = "done"
            /\ connection' = IF driver = "main" THEN "null" ELSE connection
            /\ initialized' = IF driver = "main" /\ connection = "open"
                              THEN FALSE ELSE initialized
            /\ UNCHANGED <<idx, processed, gcd, appToken, caseDetails>>
    /\ UNCHANGED <<storeVars, initPc, driver, maxAttempts, cnrNumbers,
                   mainOut, runOut>>

Push(field, cnr) == [mainOut EXCEPT ![field] = Append(@, cnr)]

\* main, after await scraper.getCaseDetails(cnrNumber).  In the branch of a
\* null result the template `${cnr}` names a variable that is not declared:
\* the ReferenceError is raised after the first failedCases.push and is
\* caught by the outer catch, which pushes again.
MainBranch ==
    /\ driver = "main"
    /\ pc = "getCaseDetails"
    /\ gcd.pc = "return"
    /\ IF caseDetails.isNull
       THEN /\ mainOut' = [mainOut EXCEPT !.failedCases =
                              Append(Append(@, cnrNumbers[idx]), cnrNumbers[idx])]
            /\ pc' = FailureContinuation("delay")
            /\ UNCHANGED storeVars
       ELSE IF ~caseDetails.exists
       THEN /\ mainOut' = Push("nonExistentCases", cnrNumbers[idx])
            /\ pc' = "delay"
            /\ UNCHANGED storeVars
       ELSE /\ pc' = AwaitInsertCase("delay")
            /\ IF connection = "null"
               THEN InsertCaseNoConnection(1, caseDetails.rec, caseDetails.html)
               ELSE InsertCaseBegin(1, caseDetails.rec, caseDetails.html)
            /\ UNCHANGED mainOut
    /\ gcd' = IdleFrame
    /\ UNCHANGED <<connection, initialized, initPc, driver, maxAttempts,
                   cnrNumbers, idx, appToken, caseDetails, runOut, processed>>

\* main, after await db.insertCase(caseDetails)
MainInserted ==
    /\ driver = "main"
    /\ pc = "insertCase"
    /\ run[1].pc \in {"returned", "threw"}
    /\ IF run[1].pc = "returned"
       THEN /\ mainOut' = Push("successfulCases", cnrNumbers[idx])
            /\ pc' = "delay"
       ELSE /\ mainOut' = Push("failedCases", cnrNumbers[idx])
            /\ pc' = FailureContinuation("delay")
    /\ UNCHANGED <<storeVars, connection, initialized, initPc, driver,
                   maxAttempts, cnrNumbers, idx, scraperVars, runOut, processed>>

\* run(): if (!this.db.initialized) { try { await this.db.initialize() } ... }
RunStart ==
    /\ driver = "run"
    /\ pc = "start"
    /\ IF initialized
       THEN pc' = "loop" /\ UNCHANGED initPc
       ELSE pc' = "initialize" /\ initPc' = [initPc EXCEPT !["run"] = "connecting"]
    /\ UNCHANGED <<storeVars, connection, initialized, driver, maxAttempts,
                   cnrNumbers, idx, scraperVars, mainOut, runOut, processed>>

RunInitialized ==
    /\ driver = "run"
    /\ pc = "initialize"
    /\ initPc["run"] \in {"done", "failed"}
    /\ pc' = "loop"
    /\ UNCHANGED <<storeVars, connection, initialized, initPc, driver,
                   maxAttempts, cnrNumbers, idx, scraperVars, mainOut, runOut,
                   processed>>

\* run(), after await this.getCaseDetails(cnr): a null result and a result
\* with exists === false both count as failed and `continue`
RunBranch ==
    /\ driver = "run"
    /\ pc = "getCaseDetails"
    /\ gcd.pc = "return"
    /\ IF caseDetails.isNull \/ ~caseDetails.exists
       THEN /\ runOut' = [runOut EXCEPT !.failedCases = @ + 1]
            /\ pc' = IF caseDetails.isNull THEN FailureContinuation("loop")
                     ELSE "loop"
            /\ UNCHANGED storeVars
       ELSE /\ runOut' = [runOut EXCEPT !.successfulCases = @ + 1,
                                        !.results = Append(@, caseDetails.rec)]
            /\ IF connection # "null"
               THEN /\ pc' = AwaitInsertCase(RunBodyEnd)
                    /\ InsertCaseBegin(1, caseDetails.rec, caseDetails.html)
               ELSE /\ pc' = RunBodyEnd
                    /\ UNCHANGED storeVars
    /\ gcd' = IdleFrame
    /\ UNCHANGED <<connection, initialized, initPc, driver, maxAttempts,
                   cnrNumbers, idx, appToken, caseDetails, mainOut, processed>>

\* run(), after await this.db.insertCase(caseDetails)
RunInserted ==
    /\ driver = "run"
    /\ pc = "insertCase"
    /\ run[1].pc \in {"returned", "threw"}
    /\ IF run[1].pc = "returned"
       THEN pc' = RunBodyEnd /\ UNCHANGED runOut
       ELSE /\ pc' = FailureContinuation(RunBodyEnd)
            /\ runOut' = [runOut EXCEPT !.failedCases = @ + 1]
    /\ UNCHANGED <<storeVars, connection, initialized, initPc, driver,
                   maxAttempts, cnrNumbers, idx, scraperVars, mainOut, processed>>

\* the pause at the end of the loop body: main's setTimeout of 1000 (every
\* pass reaches it) and run()'s setTimeout of 2000
DriverDelay ==
    /\ pc = "delay"
    /\ pc' = "paced"
    /\ UNCHANGED <<storeVars, connection, initialized, initPc, driver,
                   maxAttempts, cnrNumbers, idx, scraperVars, mainOut, runOut,
                   processed>>

\* ---------------------------------------------- the batch specification
\* A driver, main or run(), works through its input list.  The scraper's
\* constructor has started Database.initialize without awaiting it.

InitBatch ==
    /\ StoreInit
    /\ connection = "null"
    /\ initialized = FALSE
    /\ initPc = [t \in {"constructor", "run"} |->
                    IF t = "constructor" THEN "connecting" ELSE "idle"]
    /\ driver \in {"main", "run"}
    /\ maxAttempts = DefaultMaxAttempts
    /\ cnrNumbers = [i \in 1..MaxCnr |-> generateCNRNumber(i)]
    /\ idx = 0
    /\ pc = IF driver = "main" THEN "loop" ELSE "start"
    /\ appToken = NoToken
    /\ gcd = IdleFrame
    /\ caseDetails = NullDetails
    /\ mainOut = [successfulCases |-> <<>>, nonExistentCases |-> <<>>,
                  failedCases |-> <<>>]
    /\ runOut = [results |-> <<>>, successfulCases |-> 0, failedCases |-> 0]
    /\ processed = <<>>

NextBatch ==
    \/ DriverLoop
    \/ MainBranch
    \/ MainInserted
    \/ RunStart
    \/ RunInitialized
    \/ RunBranch
    \/ RunInserted
    \/ DriverDelay
    \/ ScraperStep(BatchOcrOutputs)
    \/ InitializeStep
    \/ \E fail \in BOOLEAN :
          InsertCaseStatement(1, fail) /\ UNCHANGED batchVars
    \/ InsertCaseReturn(1) /\ UNCHANGED batchVars
    \/ InsertCaseCatch(1, FALSE) /\ UNCHANGED batchVars

SpecBatch == InitBatch /\ [][NextBatch]_vars

\* every awaited operation completes
FairBatch == SpecBatch /\ WF_vars(NextBatch)

\* --------------------------------------------- the scraper specification
\* A caller invokes getCaseDetails(cnr, maxAttempts) for one identifier after
\* the other, with any maxAttempts up to MaxAttemptsBound; the token is
\* cached from one call to the next.

InitScraper ==
    /\ StoreInit
    /\ connection = "null"
    /\ initialized = FALSE
    /\ initPc = [t \in {"constructor", "run"} |-> "idle"]
    /\ driver = "caller"
    /\ maxAttempts = DefaultMaxAttempts
    /\ cnrNumbers = [i \in 1..MaxCnr |-> generateCNRNumber(i)]
    /\ idx = 0
    /\ pc = "loop"
    /\ appToken = NoToken
    /\ gcd = IdleFrame
    /\ caseDetails = NullDetails
    /\ mainOut = [successfulCases |-> <<>>, nonExistentCases |-> <<>>,
                  failedCases |-> <<>>]
    /\ runOut = [results |-> <<>>, successfulCases |-> 0, failedCases |-> 0]
    /\ processed = <<>>

\* getCaseDetails(cnrNumbers[idx + 1], m)
CallGetCaseDetails(m) ==
    /\ pc = "loop"
    /\ idx < Len(cnrNumbers)
    /\ idx' = idx + 1
    /\ maxAttempts' = m
    /\ pc' = "getCaseDetails"
    /\ gcd' = [IdleFrame EXCEPT !.pc = "enter"]
    /\ appToken' = KeptToken(appToken)
    /\ caseDetails' = NullDetails
    /\ UNCHANGED <<storeVars, connection, initialized, initPc, driver,
                   cnrNumbers, mainOut, runOut, processed>>

\* the call has returned to the caller
GetCaseDetailsReturned ==
    /\ pc = "getCaseDetails"
    /\ gcd.pc = "return"
    /\ pc' = "loop"
    /\ gcd' = IdleFrame
    /\ UNCHANGED <<storeVars, connection, initialized, initPc, driver,
                   maxAttempts, cnrNumbers, idx, appToken, caseDetails,
                   mainOut, runOut, processed>>

NextScraper ==
    \/ \E m \in 1..MaxAttemptsBound : CallGetCaseDetails(m)
    \/ ScraperStep(OcrOutputs)
    \/ GetCaseDetailsReturned

SpecScraper == InitScraper /\ [][NextScraper]_vars

\* every awaited request completes
FairScraper == SpecScraper /\ WF_vars(NextScraper)

\* -------------------------------------------- claims on scraper and batch

\* C4: getCaseDetails(cnr, maxAttempts) always terminates: an acquisition
\* makes at most maxRetries attempts, a call makes at most maxAttempts cycles
\* and at most one acquisition more than that, a call in which every
\* acquisition failed returns the failure result, and every call returns.
C4_Terminates ==
    /\ [](gcd.tries <= DefaultMaxRetries)
    /\ [](gcd.attempt <= maxAttempts /\ gcd.acquisitions <= maxAttempts + 1)
    /\ [](gcd.pc = "return" /\ gcd.succeeded = 0 => caseDetails.isNull)
    /\ (gcd.pc = "enter" ~> gcd.pc = "return")

\* a call with a cached token and maxAttempts above the default has failed
\* every acquisition of every cycle and returned null
C4_Witness ==
    /\ gcd.pc = "return"
    /\ caseDetails.isNull
    /\ gcd.succeeded = 0
    /\ maxAttempts > DefaultMaxAttempts
    /\ gcd.acquisitions = maxAttempts

\* C5: a response that contains the marker 'This Case Code does not exists'
\* makes getCaseDetails return {cnrNumber, exists: false}, and while a driver
\* holds that result it issues no database write.
C5_NoWriteForMissing ==
    [][/\ (/\ gcd.pc = "response"
           /\ gcd' # gcd
           /\ gcd.response.kind = "ok"
           /\ gcd.response.html.markerSpan)
          => /\ ~caseDetails'.isNull
             /\ caseDetails'.exists = FALSE
             /\ caseDetails'.cnrNumber = cnrNumbers[idx]
       /\ (~caseDetails.isNull /\ ~caseDetails.exists)
          => (db' = db /\ run' = run)]_vars

\* a driver has gone past an identifier that does not exist
C5_Witness ==
    /\ ~caseDetails.isNull
    /\ ~caseDetails.exists
    /\ pc \in {"loop", "delay"}
    /\ \/ driver = "main" /\ mainOut.nonExistentCases # <<>>
       \/ driver = "run" /\ runOut.failedCases > 0

\* how often an identifier occurs in a collection
Occurrences(list, cnr) == Cardinality({k \in 1..Len(list) : list[k] = cnr})

\* the identifiers whose pass through main's loop body is over
Finished == IF pc \in {"loop", "delay", "paced", "done"} THEN idx ELSE idx - 1

\* C6: an identifier that main has processed is recorded exactly once across
\* successfulCases, nonExistentCases and failedCases.
C6_RecordedOnce ==
    driver = "main" =>
        \A k \in 1..Finished :
            Occurrences(mainOut.successfulCases, cnrNumbers[k])
            + Occurrences(mainOut.nonExistentCases, cnrNumbers[k])
            + Occurrences(mainOut.failedCases, cnrNumbers[k]) = 1

\* C7: a failure while processing one identifier is caught at that
\* identifier's boundary: main and run() enter their loop body for the
\* identifiers of the input list in order, skip none, and reach the end of
\* the list.
C7_BatchContinues ==
    /\ [](processed = SubSeq(cnrNumbers, 1, Len(processed)))
    /\ [](pc = "done" => processed = cnrNumbers)
    /\ <>(pc = "done")

\* a driver has finished its list after the first identifier failed and a
\* later one was saved
C7_Witness ==
    /\ pc = "done"
    /\ processed = cnrNumbers
    /\ \/ /\ driver = "main"
          /\ mainOut.failedCases # <<>>
          /\ mainOut.failedCases[1] = cnrNumbers[1]
          /\ mainOut.successfulCases # <<>>
       \/ /\ driver = "run"
          /\ runOut.failedCases > 0
          /\ Len(runOut.results) > 0
          /\ runOut.results[1].cnrNumber # cnrNumbers[1]

\* C11: every submission posts a token and a CAPTCHA text obtained in one
\* and the same successful pass of the getAppTokenAndCaptcha call of the
\* current cycle, and never the token or the CAPTCHA text of a submission of
\* this call that was answered with errormsg.
C11_FreshCredentials ==
    [][gcd.pc = "query" /\ gcd'.pc = "response" =>
          /\ gcd'.posted.app_token # NoToken
          /\ gcd'.posted.app_token = gcd'.posted.fcaptcha_code
          /\ gcd'.posted.app_token[1] = gcd.acquisitions
          /\ \A r \in gcd.rejected :
                /\ r.app_token # gcd'.posted.app_token
                /\ r.fcaptcha_code # gcd'.posted.fcaptcha_code]_vars

\* a submission made after an earlier one of the same call was answered with
\* errormsg, with credentials from a pass that followed a failed pass
C11_Witness ==
    /\ gcd.pc = "response"
    /\ gcd.rejected # {}
    /\ gcd.posted.app_token[2] > 1

\* the failure class a result names: the results of getCaseDetails carry the
\* fields cnrNumber, exists and those of the record, and null carries none
ReportedClass(result) ==
    IF "failureClass" \in DOMAIN result THEN result.failureClass ELSE "none"

\* C14: a call of getCaseDetails that fails hands back a result that names
\* the class of the failure.
C14_FailureClassReported ==
    gcd.pc = "return" /\ caseDetails.isNull =>
        /\ gcd.cause \in FailureClasses
        /\ ReportedClass(caseDetails) = gcd.cause

\* C17: a cycle that follows another cycle of the same call starts only
\* after the pause at the end of the loop body, whatever made the earlier
\* cycle fail.
C17_DelayBetweenCycles ==
    [][gcd.pc = "loop" /\ gcd'.pc = "cycle" /\ gcd.attempt > 0
          => gcd.delayed]_vars

\* C12: a result with exists: false is not a failure: the step in which a
\* driver takes it up adds nothing to main's failedCases and leaves run()'s
\* failedCases counter as it is.
C12_NotFoundIsNoFailure ==
    [][/\ pc = "getCaseDetails"
       /\ gcd.pc = "return"
       /\ pc' # pc
       /\ ~caseDetails.isNull
       /\ ~caseDetails.exists
       => /\ mainOut'.failedCases = mainOut.failedCases
          /\ runOut'.failedCases = runOut.failedCases]_vars

\* the rows of the failed_cases ledger for an identifier
LedgerRows(cnr) ==
    {r \in 1..Len(db.failed_cases) : db.failed_cases[r].cnr_number = cnr}

\* C13: an identifier main has recorded as failed has exactly one row in
\* failed_cases, with an attempt_count of at least 1.
C13_FailureLedger ==
    driver = "main" =>
        \A k \in 1..Finished :
            Occurrences(mainOut.failedCases, cnrNumbers[k]) > 0 =>
                /\ Cardinality(LedgerRows(cnrNumbers[k])) = 1
                /\ \A r \in LedgerRows(cnrNumbers[k]) :
                      db.failed_cases[r].attempt_count >= 1

\* C15: once every Database.initialize call has failed, while opening the
\* connection or while applying the schema, run() starts no insertCase call.
C15_NoWriteAfterFailedInit ==
    [][driver = "run" /\ (\A t \in {"constructor", "run"} : initPc[t] = "failed")
          => calls' = calls]_vars

\* C18: a driver makes the first request for the next identifier only after
\* the pause that follows the processing of the one before, whatever that
\* one's outcome.
C18_DelayBetweenIdentifiers ==
    [][/\ driver \in {"main", "run"}
       /\ pc' = "getCaseDetails"
       /\ pc # "getCaseDetails"
       /\ idx >= 1
       => pc = "paced"]_vars

\* C23: processing is strictly sequential: every network request, OCR call
\* and database statement issued for identifier i has completed before any
\* is issued for identifier i + 1, in main and in run().  The scraper works
\* only while the driver awaits getCaseDetails, insertCase only while the
\* driver awaits it and on the record of the current identifier, and the
\* driver moves to the next identifier with both at rest.
C23_OneIdentifierAtATime ==
    [][/\ idx' # idx =>
             /\ gcd.pc = "idle"
             /\ run[1].pc \in {"idle", "returned", "threw"}
       /\ gcd.pc \notin {"idle", "return"} =>
             /\ pc = "getCaseDetails"
             /\ run[1].pc \in {"idle", "returned", "threw"}
       /\ run[1].pc \in {"try", "catch"} =>
             /\ pc = "insertCase"
             /\ gcd.pc = "idle"
             /\ run[1].cd = caseDetails.rec
             /\ caseDetails.cnrNumber = cnrNumbers[idx]]_vars

\* the first identifier's case is stored and the query for the second is
\* in flight
C23_Witness ==
    /\ idx = 2
    /\ gcd.pc = "response"
    /\ Len(db.cases) = 1
    /\ run[1].pc = "returned"

\* ---------------------------------------------- the schema specification
\* Cases are saved one after the other, no statement failing, and between
\* two calls a client of the database deletes a cases row.

\* the tables declared with FOREIGN KEY (case_id) REFERENCES cases(id) and
\* no ON DELETE clause: the server restricts the delete of a referenced row
RestrictingTables ==
    {"case_litigants", "case_acts", "case_history", "case_transfers",
     "case_ias"}

Referenced(store, id) ==
    \E t \in RestrictingTables :
        \E k \in 1..Len(store[t]) : store[t][k].case_id = id

\* what is left at the id of a deleted row: ids are not used again
DeletedRow == [deleted |-> TRUE]

\* DELETE FROM cases WHERE id = ? on the connection of process p: rejected
\* while a row of a restricting table references the case
DeleteCase(p, id) ==
    /\ run[p].pc = "idle"
    /\ db.cases[id] # DeletedRow
    /\ IF Referenced(db, id)
       THEN /\ run' = [run EXCEPT ![p] =
                         [NoRun EXCEPT !.pc = "threw", !.failed = TRUE,
                                       !.reg.caseId = id]]
            /\ UNCHANGED db
       ELSE /\ run' = [run EXCEPT ![p] =
                         [NoRun EXCEPT !.pc = "returned", !.reg.caseId = id]]
            /\ db' = [db EXCEPT !.cases[id] = DeletedRow]
    /\ UNCHANGED <<calls, failures>>

NextSchema ==
    \/ \E h \in StoreFragments :
          calls < MaxCalls /\ InsertCaseCall(1, h) /\ UNCHANGED batchVars
    \/ InsertCaseStatement(1, FALSE) /\ UNCHANGED batchVars
    \/ InsertCaseReturn(1) /\ UNCHANGED batchVars
    \/ \E id \in 1..Len(db.cases) :
          /\ run[1].pc \in {"idle", "returned"}
          /\ DeleteCase(2, id)
          /\ UNCHANGED batchVars

SpecSchema == Init /\ [][NextSchema]_vars

\* C25: deleting a cases row deletes all child rows owned by that case
\* (case_litigants, case_acts, case_history, case_transfers, case_ias): once
\* the delete of case id has been issued the cases row is gone and no child
\* row references id.
C25_DeleteCascades ==
    run[2].pc \in {"returned", "threw"} =>
        LET id == run[2].reg.caseId
        IN /\ db.cases[id] = DeletedRow
           /\ \A t \in ChildTables :
                 \A k \in 1..Len(db[t]) : db[t][k].case_id # id

\* the text an OCR output comes to: its alphanumeric characters, in order
RECURSIVE Alphanumerics(_)
Alphanumerics(text) ==
    IF text = <<>> THEN <<>>
    ELSE (IF Head(text) \in Digits \cup Letters THEN <<Head(text)>> ELSE <<>>)
         \o Alphanumerics(Tail(text))

\* the output of a profile yields a CAPTCHA text of 4 to 8 characters
Qualifies(read) ==
    /\ read.kind = "text"
    /\ Len(Alphanumerics(read.text)) \in 4..8

\* C30: getAppTokenAndCaptcha returns success only with a CAPTCHA text that
\* is purely alphanumeric and 4 to 8 characters long, taken from the first
\* recognition profile in the order PSM 7, 8, 13 whose cleaned output meets
\* that bound; a profile whose output does not qualify, or that raises, is
\* passed over, the pass in which no profile qualifies is a failed attempt
\* followed by the next one, and after the last attempt the call ends
\* without success and without a text.
C30_CaptchaAccepted ==
    [][gcd.pc \in {"initial", "cycle"} /\ gcd' # gcd =>
          /\ gcd'.succeeded # gcd.succeeded =>
                /\ gcd.profile \in 1..3
                /\ gcd'.ocr.psm = <<7, 8, 13>>[gcd.profile]
                /\ Qualifies(gcd'.ocr)
                /\ gcd'.pc = IF gcd.pc = "cycle" THEN "query" ELSE "loop"
                /\ gcd.pc = "cycle" =>
                      /\ gcd'.text = Alphanumerics(gcd'.ocr.text)
                      /\ \A i \in 1..Len(gcd'.text) :
                            gcd'.text[i] \in Digits \cup Letters
          /\ gcd.profile = 0 /\ gcd'.profile # 0 =>
                gcd'.profile = 1 /\ gcd'.pc = gcd.pc
          /\ gcd.profile \in 1..3 /\ gcd'.succeeded = gcd.succeeded =>
                /\ ~Qualifies(gcd'.ocr)
                /\ gcd'.ocr.psm = <<7, 8, 13>>[gcd.profile]
                /\ gcd'.pc = gcd.pc
                /\ IF gcd.profile < 3
                   THEN gcd'.profile = gcd.profile + 1 /\ gcd'.tries = gcd.tries
                   ELSE gcd'.profile = 0 /\ gcd'.tries = gcd.tries + 1
          /\ gcd'.pc \notin {"initial", "cycle"}
             /\ gcd'.succeeded = gcd.succeeded =>
                /\ gcd.tries = DefaultMaxRetries
                /\ gcd.profile = 0
                /\ gcd'.text = <<>>
                /\ gcd'.captchaText = NoToken
      ]_vars

\* the first two profiles were passed over, one raising and one reading
\* nine characters, and the text of the third was returned
C30_Witness ==
    /\ gcd.pc = "query"
    /\ gcd.ocr.psm = 13
    /\ gcd.text = <<"a", "1", "B", "2">>
    /\ gcd.tries = 0
    /\ gcd.cause = "CaptchaUnsolved"

\* C31: inside getAppTokenAndCaptcha the fixed delay elapses between every
\* two consecutive attempts, whatever made the earlier attempt fail, and at
\* most maxRetries attempts are made: a pass that is not the first of its
\* call starts only after the pause, and the pass counter stays within
\* maxRetries.
C31_DelayBetweenAttempts ==
    [][gcd.pc \in {"initial", "cycle"} /\ gcd.profile = 0 /\ gcd'.pc = gcd.pc
       /\ (gcd'.tries = gcd.tries + 1 \/ gcd'.profile = 1) =>
          /\ gcd.tries < DefaultMaxRetries
          /\ gcd.tries > 0 => gcd.slept]_vars

\* a text with every run of whitespace collapsed to one space
RECURSIVE CollapseSpaces(_)
CollapseSpaces(t) ==
    IF Len(t) < 2 THEN t
    ELSE IF t[1] \in Spaces /\ t[2] \in Spaces THEN CollapseSpaces(Tail(t))
    ELSE <<IF t[1] \in Spaces THEN " " ELSE t[1]>> \o CollapseSpaces(Tail(t))

\* the cleaned form of a display name: its numeric list prefix and its
\* punctuation stripped
CleanedForm(name) ==
    CollapseSpaces(Trim(BlankSpecials(StripNumberPrefix(name))))

\* C32: in a single sequential run, two display names with the same
\* cleaned form (a petitioner '1) A. Kumar' and an IA party 'A Kumar')
\* resolve through getOrCreateLitigant to the same litigant id, and the
\* litigants table holds one row per cleaned name.
C32_OneLitigantPerCleanedName ==
    run[1].pc = "returned"
    /\ run[1].html.petitionerRows # <<>> /\ run[1].html.iaRows # <<>> =>
        LET petitioner == run[1].html.petitionerRows[1]
            party == run[1].html.iaRows[1][2]
        IN CleanedForm(petitioner) = CleanedForm(party) =>
              /\ Len(db.case_litigants) = 1 /\ Len(db.case_ias) = 1
              /\ db.case_ias[1].ia_party_id = db.case_litigants[1].litigant_id
              /\ \A i, j \in 1..Len(db.litigants) :
                    CleanedForm(db.litigants[i].litigant_name)
                        = CleanedForm(db.litigants[j].litigant_name) => i = j

\* the hall number and the judge name each sample text stands for
HallOf(text) ==
    CASE text = HallPlain -> [number |-> <<"1">>, judge |-> <<"R", "a", "o">>]
      [] text = HallTwoHyphens ->
            [number |-> <<"1", "2">>, judge |-> <<"R", " ", "-", " ", "S">>]
      [] text = HallAfterWord -> [number |-> <<"3">>, judge |-> <<"R", "a", "o">>]
      [] OTHER -> [number |-> <<>>, judge |-> <<>>]

\* C33: getOrCreateCourtHall splits the court-number-and-judge text at the
\* first hyphen that follows the digits, uses the hall number as the key of
\* the court_halls row and stores the judge name nowhere; a text that is
\* empty or carries no '<digits> - <name>' part writes no court_halls row
\* and the case is persisted with a null court_hall_id.
C33_CourtHallSplit ==
    run[1].pc = "returned" /\ run[1].html.statusRows # <<>>
    /\ run[1].html.statusRows[1][1] = TdCourtNumberAndJudge =>
        LET hall == HallOf(run[1].html.statusRows[1][2])
            case == db.cases[run[1].reg.caseId]
        IN IF hall.number = <<>>
           THEN db.court_halls = <<>> /\ case.court_hall_id = 0
           ELSE /\ db.court_halls = << [name |-> hall.number, court_id |-> 1] >>
                /\ case.court_hall_id = 1
                /\ \A t \in {"states", "districts", "courts", "court_halls"} :
                      \A k \in 1..Len(db[t]) : db[t][k].name # hall.judge
                /\ \A f \in {"cnr_number", "filing_number",
                               "registration_number", "case_status",
                               "disposal_nature"} : case[f] # hall.judge
                /\ \A t \in ChildTables \cup {"litigants", "advocates"} :
                      db[t] = <<>>

\* the text '12-R - S' was split at its first hyphen and the case saved
C33_Witness ==
    /\ run[1].pc = "returned"
    /\ run[1].cd.courtNumberAndJudge = HallTwoHyphens
    /\ Len(db.court_halls) = 1
    /\ db.cases[1].court_hall_id = 1

\* C34: no insertCase statement is issued before Database.initialize has
\* completed: in every interleaving of the initialization the scraper's
\* constructor started with the batch loop, the connection is open and the
\* schema fully applied when an insertCase call starts.
C34_InitializedBeforeInsert ==
    [][calls' = calls + 1 => connection = "open" /\ initialized]_vars

\* C35: at most one database connection is ever opened per Database
\* instance: an initialize call made while an earlier one is in flight
\* creates no second connection and does not apply the schema again.  A
\* call gets a connection only while none is held, and applies the schema
\* only while no other call has applied it or is applying it.
C35_OneConnection ==
    [][\A t \in DOMAIN initPc :
          /\ initPc[t] = "connecting" /\ initPc'[t] = "schema" =>
                /\ connection = "null"
                /\ \A u \in DOMAIN initPc \ {t} :
                      initPc[u] \notin {"schema", "done"}
          /\ initPc[t] = "schema" /\ initPc'[t] = "done" => ~initialized
      ]_vars

\* C36: when run() finishes, successfulCases + failedCases equals the
\* number of input identifiers: every identifier is counted in exactly one
\* of the two counters, also when its case was scraped and the save failed.
C36_CountersAddUp ==
    driver = "run" /\ pc = "done" =>
        runOut.successfulCases + runOut.failedCases = Len(cnrNumbers)

\* C37: after any sequence of insertCase calls, also calls made again for an
\* identifier an earlier call has persisted, no two cases rows share the
\* same cnr_number.
C37_OneCasePerCnr ==
    \A i, j \in 1..Len(db.cases) :
        db.cases[i].cnr_number = db.cases[j].cnr_number => i = j

\* C38: when insertCase fails, the error its caller receives is the
\* original error of the failing step, in every state of the connection:
\* also when the connection was never opened or the rollback itself fails.
C38_OriginalErrorReceived ==
    \A p \in Runs : run[p].pc = "threw" => run[p].error = "step"

====
